---- MODULE Spec2Model ----
(***************************************************************************)
(* Playback session controller of simple-iptv (src/js/modules/player.js).  *)
(* The module-level fields of player.js are the global variables; every    *)
(* play() call is an attempt occupying one slot, whose position between    *)
(* its suspension points (fetch, body read, library import, readiness      *)
(* wait) is pc[a].  The playback surface (the <video> element), the        *)
(* hls.js instances, the timers and the network are the environment.       *)
(***************************************************************************)
EXTENDS Integers, Sequences, FiniteSets, TLC

\* ---------------------------------------------------------------- bounds
\* The number of play() calls of a run; attempt a is the a-th call.
MaxAttempts == 2
Attempts == 1..MaxAttempts

Null == "null"
NoStatus == 0 - 1

\* ------------------------------------------------------- program constants
\* A blocking set that has lost 403.
BLOCKED_STATUS_CODES_WITHOUT_403 == {401, 451, 458, 459, 460}

BLOCKED_STATUS_CODES == {401, 403, 451, 458, 459, 460}

ErrorTypes ==
  [CORS |-> "cors", BLOCKED |-> "blocked", NETWORK |-> "network",
   FORMAT |-> "format", MEDIA |-> "media", EMPTY_STREAM |-> "empty_stream",
   CODEC |-> "codec", UNKNOWN |-> "unknown"]

\* ------------------------------------------------------------- addresses
\* An address is abstracted to what the code inspects of it:
\*   m3u8    - the text contains ".m3u8"
\*   vod     - the text matches /\.(mp4|mkv|...)(\?|$)/
\*   viaProxy- the text contains the configured proxy URL
\*   http    - the text starts with http:// or https://
\*   vodPct  - the text matches /\.(mp4|mkv|...)%/: the extension is followed
\*             by a percent-encoded character
Url(m, v, p, h) ==
  [m3u8 |-> m, vod |-> v, viaProxy |-> p, http |-> h, vodPct |-> FALSE]

TargetUrl ==
  [live      |-> Url(TRUE,  FALSE, FALSE, TRUE),
   movie     |-> Url(FALSE, TRUE,  FALSE, TRUE),
   rewritten |-> Url(TRUE,  FALSE, TRUE,  TRUE),
   hybrid    |-> Url(TRUE,  TRUE,  FALSE, TRUE),
   encoded   |-> [Url(FALSE, FALSE, FALSE, TRUE) EXCEPT !.vodPct = TRUE],
   plain     |-> Url(FALSE, FALSE, FALSE, TRUE)]

\* The addresses content-kind inference is examined on: besides a manifest
\* and a file address, one with both marks (".../list.m3u8?file=a.mp4"), one
\* whose extension is followed by an encoded character (".../a.mp4%3Ft=1")
\* and one with neither mark (".../stream", ".../m3u8/1").
KindTargets == {"live", "movie", "hybrid", "encoded", "plain"}

AllTargets == {"live", "movie", "rewritten"}

\* storage.js applyProxyToUrl: the address is returned unchanged when no proxy
\* is configured, when it already contains the proxy URL, or when it is not
\* http(s) (data: and blob: addresses are not http(s)); otherwise it is
\* prefixed with the proxy (and then contains it).
applyProxyToUrl(url, proxy) ==
  IF ~proxy THEN url
  ELSE IF url.viaProxy THEN url
  ELSE IF ~url.http THEN url
  ELSE [url EXCEPT !.viaProxy = TRUE]

\* ------------------------------------------------------------ error hints
getErrorHint(errorType) ==
  CASE errorType = ErrorTypes.BLOCKED      -> "hint_blocked"
    [] errorType = ErrorTypes.CORS         -> "hint_cors"
    [] errorType = ErrorTypes.NETWORK      -> "hint_network"
    [] errorType = ErrorTypes.FORMAT       -> "hint_format"
    [] errorType = ErrorTypes.MEDIA        -> "hint_media"
    [] errorType = ErrorTypes.EMPTY_STREAM -> "hint_empty_stream"
    [] errorType = ErrorTypes.CODEC        -> "hint_codec"
    [] OTHER                               -> "hint_default"

\* ----------------------------------------------------------------- events
StateEv(p) ==
  [ch |-> "onStateChange", payload |-> p, type |-> Null, message |-> Null,
   hint |-> Null, status |-> NoStatus]

ErrEv(t, m, h, s) ==
  [ch |-> "onError", payload |-> Null, type |-> t, message |-> m,
   hint |-> h, status |-> s]

ErrRec(t, m, h, s) == [type |-> t, message |-> m, hint |-> h, status |-> s]
NoErr == ErrRec(Null, Null, Null, NoStatus)

\* --------------------------------------------------------------- verdicts
Verdict(o, s, e, m) == [ok |-> o, status |-> s, error |-> e, message |-> m]

\* lastPreflightResult = null
NullVerdict == Verdict(FALSE, NoStatus, Null, Null)

\* ------------------------------------------------------------------ inputs
\* HTTP statuses the probed server may answer with.
Statuses == {200, 403, 404}

\* What the first chunk of a manifest-style response body may be: whether it
\* could be read, whether it contains #EXTM3U, whether a line starts with
\* #EXT-X-ENDLIST, and how many non-empty lines do not start with #.
MaxSegs == 1
Body(r, m, e, n) == [readable |-> r, extm3u |-> m, endlist |-> e, segs |-> n]
Bodies ==
  {Body(FALSE, FALSE, FALSE, 0)} \cup
  {Body(TRUE, m, e, n) : m \in BOOLEAN, e \in BOOLEAN, n \in 0..MaxSegs}

\* The bodies the session model draws from: an unreadable one, an empty
\* manifest and a manifest with a segment.
SessionBodies ==
  {b \in Bodies : b.readable => (b.extm3u /\ b.endlist /\ b.segs \in {0, MaxSegs})}

\* How the fetch of the probe can fail without the timer: the transport's
\* TypeError "Failed to fetch", or any other exception.
FetchFailures == {"failed_to_fetch", "other"}


\* readyState/networkState of the surface when the readiness timer expires
\* (they select the message of the timeout report).
SurfaceAtTimeout == {"no_source", "have_nothing", "other"}

\* MediaError codes of the surface (1 aborted, 2 network, 3 decode,
\* 4 source not supported).
MediaErrorCodes == 1..4

\* The decode-surface errors the session model draws from, with the answer
\* of supportsHEVC(): network, and source-not-supported either way.
SessionMediaErrors == {<<2, TRUE>>, <<4, TRUE>>, <<4, FALSE>>}

\* Error signals of the library-backed backend: data.type, data.fatal,
\* data.response?.code (NoStatus: undefined) and data.details.
HlsErrorTypes == {"networkError", "mediaError", "otherError"}
HlsCodes == {NoStatus, 0, 403, 404, 500}
HlsDetails == {"manifestLoadError", "manifestParsingError", "fragLoadError", "other"}
HlsErrors ==
  [type : HlsErrorTypes, fatal : BOOLEAN, code : HlsCodes, details : HlsDetails]

\* The error signals the session model draws from: one per category and
\* severity.
SessionHlsErrors ==
  {d \in HlsErrors : d.code = NoStatus /\ d.details = "manifestLoadError"}

\* ------------------------------------------------------------------- state
VARIABLES
  videoElement,        \* init() has run: the playback surface is known
  Hls,                 \* the hls.js module has been imported
  hlsInstance,         \* 0 (null) or the attempt whose instance it references
  currentChannel,      \* Null or a target
  isPlaying,
  lastPreflightResult, \* NullVerdict or a verdict
  video,               \* the surface: [src, paused]
  pc,                  \* pc[a]: where attempt a is suspended
  target,              \* target[a]: the channel attempt a was called with
  pfTimer,             \* pfTimer[a]: preflight abort timer armed
  pfStatus,            \* pfStatus[a]: status of the response whose body is read
  readyTimer,          \* readyTimer[a]: native readiness timer armed
  listening,           \* listening[a]: playNative's listeners are registered
  inst,                \* inst[a]: the hls.js instance created by attempt a
  thrown,              \* the error the last step rejected play() with, or NoErr
  abandoned,           \* abandoned[a]: stop() ran while a was unsettled
  emitted,             \* events emitted by the last step, in order
  calls,               \* calls the last step made on the surface and the backend
  lastAct,             \* the last step: [name, att]
  doc,                 \* the document: [fullscreen, pip]
  hlsLoad,             \* hlsLoad[a]: [startPosition, loadFrom] of a's instance
  seekTimers,          \* the grace timers seek() has armed, oldest first
  listeners            \* listeners[event]: the callbacks registered, in order

\* What the transport controls and seek() work on.
ctl == <<doc, hlsLoad, seekTimers>>

vars ==
  <<videoElement, Hls, hlsInstance, currentChannel,
    isPlaying, lastPreflightResult, video, pc, target, pfTimer, pfStatus,
    readyTimer, listening, inst, abandoned, thrown, emitted, calls, lastAct,
    doc, hlsLoad, seekTimers, listeners>>

\* The event channels of the listeners object.
EventChannels == {"onStateChange", "onError", "onTimeUpdate"}

\* const listeners = { onStateChange: [], onError: [], onTimeUpdate: [] }
NoListeners == [e \in EventChannels |-> <<>>]

\* startPosition of an instance nobody has sought on, and the load position
\* of one that was never restarted.
NoPosition == 0 - 1

\* The surface init() is given: no source, paused, at position 0, at full
\* volume (in hundredths), not muted.
NewSurface ==
  [src |-> "none", paused |-> TRUE, currentTime |-> 0, volume |-> 100,
   muted |-> FALSE]

\* No element is in fullscreen or picture-in-picture.
NewDocument == [fullscreen |-> FALSE, pip |-> FALSE]

NewHlsLoad ==
  [a \in Attempts |-> [startPosition |-> NoPosition, loadFrom |-> NoPosition]]

Pending == {"fetch", "body", "loadlib", "nativeWait", "hlsWait"}
Settled == {"resolved", "rejected"}

Act(n, a) == [name |-> n, att |-> a, proxy |-> FALSE]
ActPlay(a, proxy) == [name |-> "Play", att |-> a, proxy |-> proxy]

\* The targets the catalog layer can hand to play(), and whether
\* settings.proxyUrl is configured when play() reads it: an address rewritten
\* through the proxy exists only when a proxy is configured.
PlayInputs ==
  {<<t, proxy>> \in AllTargets \X BOOLEAN : t = "rewritten" => proxy}

Init ==
  /\ videoElement = FALSE
  /\ Hls = FALSE
  /\ hlsInstance = 0
  /\ currentChannel = Null
  /\ isPlaying = FALSE
  /\ lastPreflightResult = NullVerdict
  /\ video = NewSurface
  /\ pc = [a \in Attempts |-> "free"]
  /\ target = [a \in Attempts |-> Null]
  /\ pfTimer = [a \in Attempts |-> FALSE]
  /\ pfStatus = [a \in Attempts |-> NoStatus]
  /\ readyTimer = [a \in Attempts |-> FALSE]
  /\ listening = [a \in Attempts |-> FALSE]
  /\ inst = [a \in Attempts |-> "none"]
  /\ thrown = NoErr
  /\ abandoned = [a \in Attempts |-> FALSE]
  /\ emitted = <<>>
  /\ calls = <<>>
  /\ lastAct = Act("Init", 0)
  /\ doc = NewDocument
  /\ hlsLoad = NewHlsLoad
  /\ seekTimers = <<>>
  /\ listeners = NoListeners

\* ------------------------------------------------------- preflightCheck
\* Verdict for an address with an on-demand file extension: status only.
VodVerdict(status) ==
  IF status = 200 \/ status = 206 THEN Verdict(TRUE, status, Null, Null)
  ELSE IF status \in BLOCKED_STATUS_CODES
    THEN Verdict(FALSE, status, "blocked", "VOD blocked by provider")
  ELSE Verdict(FALSE, status, "network", "VOD request failed")

\* response.ok
ResponseOk(status) == status >= 200 /\ status <= 299

\* Verdict for any other address, after the first chunk of the body is read.
ManifestVerdict(status, body) ==
  IF body.readable /\ body.extm3u /\ body.endlist /\ body.segs = 0
    THEN Verdict(FALSE, status, "empty_stream", "Stream is offline or has ended")
  ELSE IF status \in BLOCKED_STATUS_CODES
    THEN Verdict(FALSE, status, "blocked", "Stream blocked by provider")
  ELSE IF ~ResponseOk(status) /\ status # 206
    THEN Verdict(FALSE, status, "http_error", "HTTP error")
  ELSE Verdict(TRUE, status, Null, Null)

\* The catch block: the errors the fetch can throw.
CatchVerdict(e) ==
  IF e = "abort" THEN Verdict(FALSE, 0, "timeout", "Request timed out")
  ELSE IF e = "failed_to_fetch"
    THEN Verdict(FALSE, 0, "cors_or_network", "Stream blocked (CORS) or network error")
  ELSE Verdict(FALSE, 0, "unknown", "e.message")

\* A switch that has lost its cases: every failed verdict is a network error.
PreflightErrorTypeNetworkOnly(v) ==
  CASE v.error = "http_error" -> ErrorTypes.NETWORK
    [] OTHER                  -> ErrorTypes.NETWORK

\* play(): the switch over lastPreflightResult.error.
PreflightErrorType(v) ==
  CASE v.error = "blocked"         -> ErrorTypes.BLOCKED
    [] v.error = "cors_or_network" -> ErrorTypes.CORS
    [] v.error = "empty_stream"    -> ErrorTypes.EMPTY_STREAM
    [] OTHER                       -> ErrorTypes.NETWORK

\* An error that carries the verdict without classifying it.
PreflightErrorUnclassified(v) ==
  ErrRec(ErrorTypes.UNKNOWN, v.message, getErrorHint(ErrorTypes.UNKNOWN), v.status)

PreflightError(v) ==
  ErrRec(PreflightErrorType(v), v.message, getErrorHint(PreflightErrorType(v)), v.status)

\* ------------------------------------------------------- error classifier
\* handleHlsError(data): the report, whether it is emitted on the error
\* channel, and whether recoverMediaError() is called on hlsInstance.
HlsReport(t, m, h, emit, rec) ==
  [info |-> ErrRec(t, m, h, NoStatus), emit |-> emit, recover |-> rec]

\* A classifier that takes a failed fragment load for a network error.
handleHlsErrorFragAsNetwork(data) ==
  LET code == data.code
      hasCode == code # NoStatus /\ code # 0
  IN
  IF hasCode /\ code \in BLOCKED_STATUS_CODES
    THEN HlsReport(ErrorTypes.BLOCKED, "Stream blocked by provider",
                   getErrorHint(ErrorTypes.BLOCKED), TRUE, FALSE)
  ELSE IF data.type = "networkError" THEN
    IF code = 0 \/ code = NoStatus THEN
      IF data.details = "manifestLoadError"
        THEN HlsReport(ErrorTypes.BLOCKED, "Stream blocked (CORS/Connection refused)",
                       getErrorHint(ErrorTypes.CORS), TRUE, FALSE)
      ELSE IF data.details = "fragLoadError"
        THEN HlsReport(ErrorTypes.NETWORK, "Stream segments blocked",
                       getErrorHint(ErrorTypes.NETWORK), TRUE, FALSE)
      ELSE HlsReport(ErrorTypes.NETWORK, "Network error occurred",
                     getErrorHint(ErrorTypes.NETWORK), TRUE, FALSE)
    ELSE IF code >= 400 /\ code < 500
      THEN HlsReport(ErrorTypes.BLOCKED, "Access denied",
                     getErrorHint(ErrorTypes.BLOCKED), TRUE, FALSE)
    ELSE IF code >= 500
      THEN HlsReport(ErrorTypes.NETWORK, "Server error",
                     "hint_server_down", TRUE, FALSE)
    ELSE HlsReport(ErrorTypes.NETWORK, "Network error",
                   getErrorHint(ErrorTypes.NETWORK), TRUE, FALSE)
  ELSE IF data.type = "mediaError" THEN
    IF data.fatal /\ hlsInstance # 0
      THEN HlsReport(ErrorTypes.MEDIA, "Media playback error",
                     getErrorHint(ErrorTypes.MEDIA), FALSE, TRUE)
      ELSE HlsReport(ErrorTypes.MEDIA, "Media playback error",
                     getErrorHint(ErrorTypes.MEDIA), TRUE, FALSE)
  ELSE IF data.details = "manifestLoadError" \/ data.details = "manifestParsingError"
    THEN HlsReport(ErrorTypes.FORMAT, "Invalid stream format",
                   getErrorHint(ErrorTypes.FORMAT), TRUE, FALSE)
  ELSE HlsReport(ErrorTypes.UNKNOWN, "Playback error", "", TRUE, FALSE)

handleHlsError(data) ==
  LET code == data.code
      hasCode == code # NoStatus /\ code # 0
  IN
  IF hasCode /\ code \in BLOCKED_STATUS_CODES
    THEN HlsReport(ErrorTypes.BLOCKED, "Stream blocked by provider",
                   getErrorHint(ErrorTypes.BLOCKED), TRUE, FALSE)
  ELSE IF data.type = "networkError" THEN
    IF code = 0 \/ code = NoStatus THEN
      IF data.details = "manifestLoadError"
        THEN HlsReport(ErrorTypes.BLOCKED, "Stream blocked (CORS/Connection refused)",
                       getErrorHint(ErrorTypes.CORS), TRUE, FALSE)
      ELSE IF data.details = "fragLoadError"
        THEN HlsReport(ErrorTypes.BLOCKED, "Stream segments blocked",
                       getErrorHint(ErrorTypes.BLOCKED), TRUE, FALSE)
      ELSE HlsReport(ErrorTypes.NETWORK, "Network error occurred",
                     getErrorHint(ErrorTypes.NETWORK), TRUE, FALSE)
    ELSE IF code >= 400 /\ code < 500
      THEN HlsReport(ErrorTypes.BLOCKED, "Access denied",
                     getErrorHint(ErrorTypes.BLOCKED), TRUE, FALSE)
    ELSE IF code >= 500
      THEN HlsReport(ErrorTypes.NETWORK, "Server error",
                     "hint_server_down", TRUE, FALSE)
    ELSE HlsReport(ErrorTypes.NETWORK, "Network error",
                   getErrorHint(ErrorTypes.NETWORK), TRUE, FALSE)
  ELSE IF data.type = "mediaError" THEN
    IF data.fatal /\ hlsInstance # 0
      THEN HlsReport(ErrorTypes.MEDIA, "Media playback error",
                     getErrorHint(ErrorTypes.MEDIA), FALSE, TRUE)
      ELSE HlsReport(ErrorTypes.MEDIA, "Media playback error",
                     getErrorHint(ErrorTypes.MEDIA), TRUE, FALSE)
  ELSE IF data.details = "manifestLoadError" \/ data.details = "manifestParsingError"
    THEN HlsReport(ErrorTypes.FORMAT, "Invalid stream format",
                   getErrorHint(ErrorTypes.FORMAT), TRUE, FALSE)
  ELSE HlsReport(ErrorTypes.UNKNOWN, "Playback error", "", TRUE, FALSE)

\* handleVideoError(e): the report emitted for MediaError code c, with
\* hevc the answer of supportsHEVC().
handleVideoError(c, hevc) ==
  IF lastPreflightResult # NullVerdict /\ ~lastPreflightResult.ok THEN
    LET t == IF lastPreflightResult.error = "blocked" THEN ErrorTypes.BLOCKED
             ELSE IF lastPreflightResult.error = "cors_or_network" THEN ErrorTypes.CORS
             ELSE ErrorTypes.NETWORK
    IN ErrRec(t, lastPreflightResult.message, getErrorHint(t), NoStatus)
  ELSE CASE c = 1 -> ErrRec(ErrorTypes.UNKNOWN, "Playback aborted",
                            "Playback was stopped.", NoStatus)
         [] c = 2 -> ErrRec(ErrorTypes.NETWORK, "Network error",
                            "A network error occurred.", NoStatus)
         [] c = 3 -> ErrRec(ErrorTypes.MEDIA, "Decoding error",
                            "The video could not be decoded.", NoStatus)
         [] c = 4 -> IF ~hevc
                       THEN ErrRec(ErrorTypes.CODEC, "Codec not supported",
                                   "This stream may use HEVC/H.265 codec.", NoStatus)
                       ELSE ErrRec(ErrorTypes.BLOCKED, "Stream not accessible",
                                   "The stream may be blocked.", NoStatus)
         [] OTHER -> ErrRec(ErrorTypes.UNKNOWN, "Playback error", "", NoStatus)

AsEvent(r) == ErrEv(r.type, r.message, r.hint, r.status)

\* The report of the readiness timeout of playNative.
TimeoutReport(surf, isVOD) ==
  IF surf = "no_source"
    THEN ErrRec(ErrorTypes.NETWORK, "Unable to load video",
                "The video source could not be loaded.", NoStatus)
  ELSE IF surf = "have_nothing"
    THEN ErrRec(ErrorTypes.NETWORK, "Video not loading",
                "No video data received.", NoStatus)
  ELSE IF isVOD
    THEN ErrRec(ErrorTypes.NETWORK, "VOD playback timeout",
                "The movie/episode is taking too long to load.", NoStatus)
  ELSE ErrRec(ErrorTypes.NETWORK, "Playback timeout",
              "The video failed to start playing in time.", NoStatus)

\* ------------------------------------------------------ playback surface
\* The surface dispatches its play and pause events to the listeners of
\* init() (isPlaying, a state-change) before any other task runs: the
\* dispatch is part of the step that called play() or pause().

\* videoElement.play()
VPlay(v) == [v EXCEPT !.paused = FALSE]
PlayEvents(v) == IF v.paused THEN <<StateEv("playing_true")>> ELSE <<>>

\* videoElement.pause()
VPause(v) == [v EXCEPT !.paused = TRUE]
PauseEvents(v) == IF ~v.paused THEN <<StateEv("playing_false")>> ELSE <<>>

\* Assigning a source and load(): the load algorithm pauses silently and
\* returns to position 0.
VLoad(v, s) == [v EXCEPT !.src = s, !.paused = TRUE, !.currentTime = 0]

\* stop() on the surface: pause(); removeAttribute('src'); load().
VStop(v) == IF videoElement THEN VLoad(VPause(v), "none") ELSE v

\* ---------------------------------------------------------------- stop()
\* A stop() that clears the reference without destroy().
InstAfterStopLeaking ==
  [i \in Attempts |-> inst[i]]

\* The session fields as stop() leaves them.
InstAfterStop ==
  [i \in Attempts |-> IF i = hlsInstance THEN "destroyed" ELSE inst[i]]

AbandonedAfterStop ==
  [i \in Attempts |-> abandoned[i] \/ pc[i] \in Pending]

\* stop() emits its state-change; the pause event of a surface that was
\* playing follows it.
StopEvents == <<StateEv("playing_false_channel_null")>> \o PauseEvents(video)

\* A stop() that touches the surface only while a target is set.
StopCallsGuarded ==
  (IF hlsInstance # 0 THEN <<"hls.destroy">> ELSE <<>>) \o
  (IF videoElement /\ currentChannel # Null
     THEN <<"pause", "removeAttribute", "load">> ELSE <<>>)

\* The calls stop() makes.
StopCalls ==
  (IF hlsInstance # 0 THEN <<"hls.destroy">> ELSE <<>>) \o
  (IF videoElement THEN <<"pause", "removeAttribute", "load">> ELSE <<>>)

Stop ==
  /\ inst' = InstAfterStop
  /\ hlsInstance' = 0
  /\ video' = VStop(video)
  /\ currentChannel' = Null
  /\ isPlaying' = FALSE
  /\ lastPreflightResult' = NullVerdict
  /\ emitted' = StopEvents
  /\ calls' = StopCalls
  /\ thrown' = NoErr
  /\ abandoned' = AbandonedAfterStop
  /\ lastAct' = Act("Stop", IF lastAct.name = "Stop" THEN 2 ELSE 1)
  /\ UNCHANGED <<ctl, listeners>>
  /\ UNCHANGED <<videoElement, Hls, pc, target, pfTimer, pfStatus,
                 readyTimer, listening>>

\* init(element)
InitPlayer ==
  /\ ~videoElement
  /\ videoElement' = TRUE
  /\ emitted' = <<>>
  /\ calls' = <<>>
  /\ thrown' = NoErr
  /\ lastAct' = Act("InitPlayer", 0)
  /\ UNCHANGED <<ctl, listeners>>
  /\ UNCHANGED <<Hls, hlsInstance, currentChannel, isPlaying,
                 lastPreflightResult, video, pc, target, pfTimer, pfStatus,
                 readyTimer, listening, inst, abandoned>>

\* ---------------------------------------------------------------- play()
\* The next play() call is attempt a.
NextSlot(a) == pc[a] = "free" /\ \A b \in Attempts : b < a => pc[b] # "free"

\* const isHLS = urlLower.includes('.m3u8')   (on the original address)
IsHLS(t) == TargetUrl[t].m3u8

\* const usingProxy = url !== originalUrl
UsingProxy(t, proxy) == applyProxyToUrl(TargetUrl[t], proxy) # TargetUrl[t]

\* A selection that asks for Media Source Extensions first.
SelectBackendMseFirst(t, nativeHLS, mse) ==
  IF IsHLS(t) /\ mse THEN "hls"
  ELSE IF IsHLS(t) /\ nativeHLS THEN "native"
  ELSE IF ~IsHLS(t) THEN "native"
  ELSE "unsupported"

\* The branch of play()'s try block, for the answers nativeHLS of
\* supportsNativeHLS() and mse of supportsMSE().
SelectBackend(t, nativeHLS, mse) ==
  IF IsHLS(t) /\ nativeHLS THEN "native"
  ELSE IF IsHLS(t) /\ mse THEN "hls"
  ELSE IF ~IsHLS(t) THEN "native"
  ELSE "unsupported"

\* play() from backend selection to its next suspension point, for attempt a
\* with the surface in state vid and events ems already emitted in this
\* step, on a host answering nativeHLS and mse to the capability queries.
\* playNative registers its listeners, assigns the source, calls load() and
\* arms the readiness timer; playWithHls suspends on loadHlsJs(); an
\* unsupported host throws.
BackendBranch(a, t, vid, ems, cls, ab, nativeHLS, mse) ==
  LET b == SelectBackend(t, nativeHLS, mse) IN
  /\ emitted' = ems
  /\ calls' = cls \o (IF b = "native" THEN <<"src", "load">> ELSE <<>>)
  /\ pc' = [pc EXCEPT ![a] =
       CASE b = "native" -> "nativeWait"
         [] b = "hls" -> "loadlib"
         [] OTHER -> "rejected"]
  /\ listening' = [listening EXCEPT ![a] = (b = "native")]
  /\ readyTimer' = [readyTimer EXCEPT ![a] = (b = "native")]
  /\ video' = IF b = "native" THEN VLoad(vid, "native") ELSE vid
  /\ target' = [target EXCEPT ![a] = IF b = "unsupported" THEN Null ELSE t]
  /\ abandoned' = [ab EXCEPT ![a] = IF b = "unsupported" THEN FALSE ELSE ab[a]]
  /\ thrown' =
       IF b = "unsupported"
         THEN ErrRec(Null, "HLS playback not supported on this browser", Null, NoStatus)
         ELSE NoErr

\* supportsNativeHLS() and supportsMSE() ask the host, which may answer
\* either way.
StartBackend(a, t, vid, ems, cls, ab) ==
  \E nativeHLS \in BOOLEAN, mse \in BOOLEAN :
    BackendBranch(a, t, vid, ems, cls, ab, nativeHLS, mse)

\* play(channel) up to its first suspension point.
Play(t, proxy) ==
  /\ videoElement
  /\ \E a \in Attempts :
       /\ NextSlot(a)
       /\ hlsInstance' = 0
       /\ inst' = InstAfterStop
       /\ currentChannel' = t
       /\ isPlaying' = FALSE
       /\ lastPreflightResult' = NullVerdict
       /\ lastAct' = ActPlay(a, proxy)
       /\ UNCHANGED <<ctl, listeners>>
       /\ IF UsingProxy(t, proxy)
            THEN /\ StartBackend(a, t, VStop(video),
                                 StopEvents \o <<StateEv("loading_true")>>,
                                 StopCalls,
                                 [AbandonedAfterStop EXCEPT ![a] = FALSE])
                 /\ UNCHANGED pfTimer
            ELSE /\ pc' = [pc EXCEPT ![a] = "fetch"]
                 /\ pfTimer' = [pfTimer EXCEPT ![a] = TRUE]
                 /\ video' = VStop(video)
                 /\ emitted' = StopEvents \o <<StateEv("loading_true")>>
                 /\ calls' = StopCalls
                 /\ thrown' = NoErr
                 /\ target' = [target EXCEPT ![a] = t]
                 /\ abandoned' = [AbandonedAfterStop EXCEPT ![a] = FALSE]
                 /\ UNCHANGED <<listening, readyTimer>>
  /\ UNCHANGED <<videoElement, Hls, pfStatus>>

\* play() before init(): throws 'Player not initialized'.
PlayNotInitialized ==
  /\ ~videoElement
  /\ emitted' = <<>>
  /\ calls' = <<>>
  /\ thrown' = ErrRec(Null, "Player not initialized", Null, NoStatus)
  /\ lastAct' = Act("PlayNotInitialized", 0)
  /\ UNCHANGED <<ctl, listeners>>
  /\ UNCHANGED <<videoElement, Hls, hlsInstance, currentChannel,
                 isPlaying, lastPreflightResult, video, pc, target, pfTimer,
                 pfStatus, readyTimer, listening, inst, abandoned>>

\* ------------------------------------------- preflight: the suspension points
\* A continuation that goes on to backend selection whatever the verdict.
AfterPreflightIgnoringVerdict(a, v) ==
  /\ lastPreflightResult' = v
  /\ pfStatus' = [pfStatus EXCEPT ![a] = NoStatus]
  /\ StartBackend(a, target[a], video, <<>>, <<>>, abandoned)

\* play() resumed with the verdict v of its probe: the verdict is stored;
\* a verdict that is not ok is classified, reported and thrown, an ok one
\* goes on to backend selection.
AfterPreflight(a, v) ==
  /\ lastPreflightResult' = v
  /\ pfStatus' = [pfStatus EXCEPT ![a] = NoStatus]
  /\ IF ~v.ok
       THEN /\ emitted' = <<StateEv("loading_false"), AsEvent(PreflightError(v))>>
            /\ calls' = <<>>
            /\ pc' = [pc EXCEPT ![a] = "rejected"]
            /\ thrown' = PreflightError(v)
            /\ target' = [target EXCEPT ![a] = Null]
            /\ abandoned' = [abandoned EXCEPT ![a] = FALSE]
            /\ UNCHANGED <<video, listening, readyTimer>>
       ELSE StartBackend(a, target[a], video, <<>>, <<>>, abandoned)

\* The isVOD test of preflightCheck, on the address it is given (the
\* original one: an address the proxy was applied to is not probed).
ProbeIsVOD(t) == TargetUrl[t].vod

\* fetch() resolved with a response: the abort timer is cleared; an on-demand
\* address is judged by status alone, any other goes on to read the body.
ProbeResponse(a, status) ==
  /\ pc[a] = "fetch"
  /\ pfTimer' = [pfTimer EXCEPT ![a] = FALSE]
  /\ lastAct' = Act("ProbeResponse", a)
  /\ UNCHANGED <<ctl, listeners>>
  /\ IF ProbeIsVOD(target[a])
       THEN AfterPreflight(a, VodVerdict(status))
       ELSE /\ pc' = [pc EXCEPT ![a] = "body"]
            /\ pfStatus' = [pfStatus EXCEPT ![a] = status]
            /\ emitted' = <<>>
            /\ calls' = <<>>
            /\ thrown' = NoErr
            /\ UNCHANGED <<lastPreflightResult, video, listening, readyTimer,
                           target, abandoned>>
  /\ UNCHANGED <<videoElement, Hls, hlsInstance, currentChannel,
                 isPlaying, inst>>

\* reader.read() resolved (or threw): the verdict of a manifest-style address.
ProbeBody(a, body) ==
  /\ pc[a] = "body"
  /\ lastAct' = Act("ProbeBody", a)
  /\ UNCHANGED <<ctl, listeners>>
  /\ AfterPreflight(a, ManifestVerdict(pfStatus[a], body))
  /\ UNCHANGED <<videoElement, Hls, hlsInstance, currentChannel,
                 isPlaying, pfTimer, inst>>

\* fetch() rejected on its own: the catch block; the timer is left armed.
ProbeFail(a, e) ==
  /\ pc[a] = "fetch"
  /\ lastAct' = Act("ProbeFail", a)
  /\ UNCHANGED <<ctl, listeners>>
  /\ AfterPreflight(a, CatchVerdict(e))
  /\ UNCHANGED <<videoElement, Hls, hlsInstance, currentChannel,
                 isPlaying, pfTimer, inst>>

\* The 15 s timer of preflightCheck expires: controller.abort().  A fetch
\* still waiting for its response rejects with AbortError; in any other
\* position of the attempt the abort has nothing left to abort.
PreflightTimeout(a) ==
  /\ pfTimer[a]
  /\ pfTimer' = [pfTimer EXCEPT ![a] = FALSE]
  /\ lastAct' = Act("PreflightTimeout", a)
  /\ UNCHANGED <<ctl, listeners>>
  /\ IF pc[a] = "fetch"
       THEN AfterPreflight(a, CatchVerdict("abort"))
       ELSE /\ emitted' = <<>>
            /\ calls' = <<>>
            /\ thrown' = NoErr
            /\ UNCHANGED <<lastPreflightResult, video, pc, listening, readyTimer,
                           target, abandoned, pfStatus>>
  /\ UNCHANGED <<videoElement, Hls, hlsInstance, currentChannel,
                 isPlaying, inst>>

\* ------------------------------------------------- library-backed backend
\* playWithHls resumed after loadHlsJs(): the import is skipped when the
\* module is already loaded and may fail otherwise; then the instance is
\* created and assigned to hlsInstance, the source is loaded and the
\* instance attaches itself to the surface.
LoadLib(a, ok) ==
  /\ pc[a] = "loadlib"
  /\ Hls => ok
  /\ lastAct' = Act("LoadLib", a)
  /\ UNCHANGED <<ctl, listeners>>
  /\ emitted' = <<>>
  /\ calls' = IF ok THEN <<"hls.new", "hls.loadSource", "hls.attachMedia">> ELSE <<>>
  /\ IF ok
       THEN /\ Hls' = TRUE
            /\ hlsInstance' = a
            /\ inst' = [inst EXCEPT ![a] = "alive"]
            /\ video' = VLoad(video, "hls")
            /\ pc' = [pc EXCEPT ![a] = "hlsWait"]
            /\ thrown' = NoErr
            /\ UNCHANGED <<target, abandoned>>
       ELSE /\ pc' = [pc EXCEPT ![a] = "rejected"]
            /\ thrown' = ErrRec(Null, "Failed to load video library", Null, NoStatus)
            /\ target' = [target EXCEPT ![a] = Null]
            /\ abandoned' = [abandoned EXCEPT ![a] = FALSE]
            /\ UNCHANGED <<Hls, hlsInstance, inst, video>>
  /\ UNCHANGED <<videoElement, currentChannel, isPlaying,
                 lastPreflightResult, pfTimer, pfStatus, readyTimer, listening>>

\* A MANIFEST_PARSED handler without the settled guard.
HlsManifestParsedUnguarded(a) ==
  /\ inst[a] = "alive"
  /\ pc[a] \in {"hlsWait", "resolved", "rejected"}
  /\ video' = VPlay(video)
  /\ isPlaying' = TRUE
  /\ emitted' = <<StateEv("loading_false")>> \o PlayEvents(video)
  /\ calls' = <<"play">>
  /\ pc' = [pc EXCEPT ![a] = "resolved"]
  /\ target' = [target EXCEPT ![a] = Null]
  /\ abandoned' = [abandoned EXCEPT ![a] = FALSE]
  /\ thrown' = NoErr
  /\ lastAct' = Act("HlsManifestParsed", a)
  /\ UNCHANGED <<ctl, listeners>>
  /\ UNCHANGED <<videoElement, Hls, hlsInstance, currentChannel,
                 lastPreflightResult, pfTimer, pfStatus, readyTimer,
                 listening, inst>>

\* Hls.Events.MANIFEST_PARSED from the instance of attempt a (a destroyed
\* instance emits nothing): the handler acts while the attempt is not
\* settled and does nothing afterwards.
HlsManifestParsed(a) ==
  /\ inst[a] = "alive"
  /\ pc[a] \in {"hlsWait", "resolved", "rejected"}
  /\ IF pc[a] = "hlsWait"
       THEN /\ video' = VPlay(video)
            /\ isPlaying' = TRUE
            /\ emitted' = <<StateEv("loading_false")>> \o PlayEvents(video)
            /\ calls' = <<"play">>
            /\ pc' = [pc EXCEPT ![a] = "resolved"]
            /\ target' = [target EXCEPT ![a] = Null]
            /\ abandoned' = [abandoned EXCEPT ![a] = FALSE]
       ELSE /\ emitted' = <<>>
            /\ calls' = <<>>
            /\ UNCHANGED <<video, isPlaying, pc, target, abandoned>>
  /\ thrown' = NoErr
  /\ lastAct' = Act("HlsManifestParsed", a)
  /\ UNCHANGED <<ctl, listeners>>
  /\ UNCHANGED <<videoElement, Hls, hlsInstance, currentChannel,
                 lastPreflightResult, pfTimer, pfStatus, readyTimer,
                 listening, inst>>

\* Hls.Events.ERROR from the instance of attempt a.
HlsError(a, data) ==
  /\ inst[a] = "alive"
  /\ pc[a] \in {"hlsWait", "resolved", "rejected"}
  /\ LET r == handleHlsError(data) IN
       /\ emitted' = IF r.emit THEN <<AsEvent(r.info)>> ELSE <<>>
       /\ calls' = IF r.recover THEN <<"hls.recoverMediaError">> ELSE <<>>
       /\ IF data.fatal /\ pc[a] = "hlsWait"
            THEN /\ pc' = [pc EXCEPT ![a] = "rejected"]
                 /\ thrown' = r.info
                 /\ target' = [target EXCEPT ![a] = Null]
                 /\ abandoned' = [abandoned EXCEPT ![a] = FALSE]
            ELSE /\ thrown' = NoErr
                 /\ UNCHANGED <<pc, target, abandoned>>
  /\ lastAct' = Act("HlsError", a)
  /\ UNCHANGED <<ctl, listeners>>
  /\ UNCHANGED <<videoElement, Hls, hlsInstance, currentChannel,
                 isPlaying, lastPreflightResult, video, pfTimer,
                 pfStatus, readyTimer, listening, inst>>

\* ---------------------------------------------------------- native backend
Listeners == {a \in Attempts : listening[a]}

\* n copies of event e
Repeat(e, n) == [i \in 1..n |-> e]

\* The surface dispatches canplay (or loadedmetadata): onCanPlay of every
\* attempt whose listeners are still registered runs.
VideoReady ==
  /\ video.src # "none"
  /\ Listeners # {}
  /\ video' = VPlay(video)
  /\ isPlaying' = TRUE
  /\ pc' = [a \in Attempts |-> IF listening[a] THEN "resolved" ELSE pc[a]]
  /\ target' = [a \in Attempts |-> IF listening[a] THEN Null ELSE target[a]]
  /\ abandoned' = [a \in Attempts |-> IF listening[a] THEN FALSE ELSE abandoned[a]]
  /\ listening' = [a \in Attempts |-> FALSE]
  /\ readyTimer' = [a \in Attempts |-> IF listening[a] THEN FALSE ELSE readyTimer[a]]
  /\ emitted' = <<StateEv("loading_false")>> \o PlayEvents(video)
                  \o Repeat(StateEv("loading_false"), Cardinality(Listeners) - 1)
  /\ calls' = Repeat("play", Cardinality(Listeners))
  /\ thrown' = NoErr
  /\ lastAct' = Act("VideoReady", 0)
  /\ UNCHANGED <<ctl, listeners>>
  /\ UNCHANGED <<videoElement, Hls, hlsInstance, currentChannel,
                 lastPreflightResult, pfTimer, pfStatus, inst>>

\* The surface dispatches error with MediaError code c: the listener of
\* init() runs handleVideoError, then onError of every attempt whose
\* listeners are still registered runs it again and rejects.
VideoError(c, hevc) ==
  /\ video.src # "none"
  /\ pc' = [a \in Attempts |-> IF listening[a] THEN "rejected" ELSE pc[a]]
  /\ target' = [a \in Attempts |-> IF listening[a] THEN Null ELSE target[a]]
  /\ abandoned' = [a \in Attempts |-> IF listening[a] THEN FALSE ELSE abandoned[a]]
  /\ thrown' = IF Listeners # {} THEN ErrRec(Null, "Playback failed", Null, NoStatus)
               ELSE NoErr
  /\ listening' = [a \in Attempts |-> FALSE]
  /\ readyTimer' = [a \in Attempts |-> IF listening[a] THEN FALSE ELSE readyTimer[a]]
  /\ emitted' = Repeat(AsEvent(handleVideoError(c, hevc)), 1 + Cardinality(Listeners))
  /\ calls' = <<>>
  /\ lastAct' = Act("VideoError", 0)
  /\ UNCHANGED <<ctl, listeners>>
  /\ UNCHANGED <<videoElement, Hls, hlsInstance, currentChannel,
                 isPlaying, lastPreflightResult, video, pfTimer,
                 pfStatus, inst>>

\* The isVOD test of playNative, on the address it is given.
NativeIsVOD(t) == TargetUrl[t].vod \/ TargetUrl[t].vodPct

\* The readiness timer of attempt a expires (a timer that is armed belongs
\* to an attempt that is not resolved: cleanup() clears it).
NativeTimeout(a, surf) ==
  /\ readyTimer[a]
  /\ readyTimer' = [readyTimer EXCEPT ![a] = FALSE]
  /\ lastAct' = Act("NativeTimeout", a)
  /\ UNCHANGED <<ctl, listeners>>
  /\ LET r == TimeoutReport(surf, NativeIsVOD(target[a])) IN
       /\ listening' = [listening EXCEPT ![a] = FALSE]
       /\ emitted' = <<StateEv("loading_false"), AsEvent(r)>>
       /\ calls' = <<>>
       /\ pc' = [pc EXCEPT ![a] = "rejected"]
       /\ thrown' = ErrRec(Null, r.message, Null, NoStatus)
  /\ target' = [target EXCEPT ![a] = Null]
  /\ abandoned' = [abandoned EXCEPT ![a] = FALSE]
  /\ UNCHANGED <<videoElement, Hls, hlsInstance, currentChannel,
                 isPlaying, lastPreflightResult, video, pfTimer,
                 pfStatus, inst>>

\* ----------------------------------------------------------- specification
Next ==
  \/ InitPlayer
  \/ PlayNotInitialized
  \/ \E in \in PlayInputs : Play(in[1], in[2])
  \/ Stop
  \/ \E a \in Attempts, s \in Statuses : ProbeResponse(a, s)
  \/ \E a \in Attempts, b \in SessionBodies : ProbeBody(a, b)
  \/ \E a \in Attempts, e \in FetchFailures : ProbeFail(a, e)
  \/ \E a \in Attempts : PreflightTimeout(a)
  \/ \E a \in Attempts, ok \in BOOLEAN : LoadLib(a, ok)
  \/ \E a \in Attempts : HlsManifestParsed(a)
  \/ \E a \in Attempts, d \in SessionHlsErrors : HlsError(a, d)
  \/ VideoReady
  \/ \E e \in SessionMediaErrors : VideoError(e[1], e[2])
  \/ \E a \in Attempts, surf \in SurfaceAtTimeout : NativeTimeout(a, surf)

Spec == Init /\ [][Next]_vars

\* Timers expire: the only progress the host guarantees.  Responses, body
\* chunks, the library import and backend events are the environment's.
FairSpec ==
  /\ Spec
  /\ WF_vars(\E a \in Attempts : PreflightTimeout(a))
  /\ WF_vars(\E a \in Attempts, surf \in SurfaceAtTimeout : NativeTimeout(a, surf))

\* ------------------------------------------- the classifiers, call by call
\* The classification functions of the module, each applied once to an input
\* drawn from a bounded set: lastAct holds the call and its inputs, and the
\* step that runs it leaves the outputs in lastPreflightResult (the verdict),
\* thrown (the report), emitted and calls.

\* The first chunk of a response body, as its lines (the text between \n).
MaxLines == 3
BodyLines ==
  {"", "  ", "#EXTM3U", "#EXTINF:4,", "#EXT-X-ENDLIST", " #EXT-X-ENDLIST ",
   "seg1.ts"}
BodyTexts == UNION {[1..n -> BodyLines] : n \in 0..MaxLines}

\* A trim() that leaves the line as it is.
TrimNothing(l) ==
  CASE l = "" -> l
    [] OTHER  -> l

\* l.trim()
Trim(l) ==
  CASE l = "  "               -> ""
    [] l = " #EXT-X-ENDLIST " -> "#EXT-X-ENDLIST"
    [] OTHER                  -> l

\* l.startsWith('#'), l.startsWith('#EXT-X-ENDLIST')
StartsWithHash(l) == l \in {"#EXTM3U", "#EXTINF:4,", "#EXT-X-ENDLIST"}
StartsWithEndList(l) == l = "#EXT-X-ENDLIST"

\* bodyText.includes('#EXTM3U')
IncludesExtM3U(b) == \E i \in 1..Len(b) : b[i] = "#EXTM3U"

\* bodyText.split('\n').map(l => l.trim()).filter(l => l)
ManifestLines(b) ==
  LET keep(l) == l # ""
  IN SelectSeq([i \in 1..Len(b) |-> Trim(b[i])], keep)

\* lines.filter(l => !l.startsWith('#') && l.length > 0)
SegmentUrls(lines) ==
  LET seg(l) == ~StartsWithHash(l) /\ l # ""
  IN SelectSeq(lines, seg)

\* What the manifest analysis finds in a body that could be read.
AnalyzeBody(b) ==
  LET lines == ManifestLines(b) IN
  Body(TRUE, IncludesExtM3U(b),
       \E i \in 1..Len(lines) : StartsWithEndList(lines[i]),
       Len(SegmentUrls(lines)))

\* HTTP statuses of the classification inputs.
ProbeStatuses == {200, 204, 206, 401, 403, 404, 451, 458, 459, 460, 500}

\* How the fetch of a probe ends: with a response (Null), aborted by the
\* timer, or with one of the other exceptions.
ProbeFailures == {Null, "abort"} \cup FetchFailures

\* preflightCheck(url) as a function of what the network gives it.
preflightCheck(c) ==
  IF c.failure # Null THEN CatchVerdict(c.failure)
  ELSE IF ProbeIsVOD(c.url) THEN VodVerdict(c.status)
  ELSE ManifestVerdict(c.status,
                       IF c.readable THEN AnalyzeBody(c.body)
                       ELSE Body(FALSE, FALSE, FALSE, 0))

\* const timeoutMs = isVOD ? 30000 : 15000
timeoutMs(isVOD) == IF isVOD THEN 30000 ELSE 15000

\* The verdicts handleVideoError may find in lastPreflightResult.
PriorVerdicts ==
  {NullVerdict, VodVerdict(200), VodVerdict(403),
   CatchVerdict("failed_to_fetch"), CatchVerdict("abort"),
   ManifestVerdict(200, Body(TRUE, TRUE, TRUE, 0)),
   ManifestVerdict(404, Body(FALSE, FALSE, FALSE, 0))}

\* The calls, with their inputs.
ProbeCall(t, f, st, r, b) ==
  [name |-> "preflightCheck", done |-> FALSE, url |-> t, failure |-> f,
   status |-> st, readable |-> r, body |-> b]

\* One call per outcome: a failed fetch has no response, an on-demand
\* address no body, an unreadable body no text.
ProbeCalls ==
  {ProbeCall(t, f, 200, FALSE, <<>>) :
     t \in AllTargets, f \in ProbeFailures \ {Null}} \cup
  {ProbeCall(t, Null, st, FALSE, <<>>) :
     t \in AllTargets, st \in ProbeStatuses} \cup
  {ProbeCall(t, Null, st, TRUE, b) :
     t \in {u \in AllTargets : ~ProbeIsVOD(u)}, st \in ProbeStatuses,
     b \in BodyTexts}

HlsErrorCalls ==
  {[name |-> "handleHlsError", done |-> FALSE, data |-> d] : d \in HlsErrors}

VideoErrorCalls ==
  {[name |-> "handleVideoError", done |-> FALSE, code |-> c, hevc |-> h] :
     c \in {0} \cup MediaErrorCodes, h \in BOOLEAN}

TimeoutCalls ==
  {[name |-> "playNative", done |-> FALSE, url |-> t, surf |-> sf] :
     t \in AllTargets, sf \in SurfaceAtTimeout}

\* play(channel) arriving at backend selection after a passed preflight, on
\* a host with the given capabilities.
BackendCalls ==
  {[name |-> "play", done |-> FALSE, url |-> t, nativeHLS |-> n, mse |-> m] :
     t \in KindTargets, n \in BOOLEAN, m \in BOOLEAN}

ClassifyInit ==
  /\ videoElement = TRUE
  /\ Hls = FALSE
  /\ currentChannel = Null
  /\ isPlaying = FALSE
  /\ video = NewSurface
  /\ pc = [a \in Attempts |-> "free"]
  /\ target = [a \in Attempts |-> Null]
  /\ pfTimer = [a \in Attempts |-> FALSE]
  /\ pfStatus = [a \in Attempts |-> NoStatus]
  /\ readyTimer = [a \in Attempts |-> FALSE]
  /\ listening = [a \in Attempts |-> FALSE]
  /\ thrown = NoErr
  /\ abandoned = [a \in Attempts |-> FALSE]
  /\ emitted = <<>>
  /\ calls = <<>>
  /\ lastAct \in ProbeCalls \cup HlsErrorCalls \cup VideoErrorCalls
                  \cup TimeoutCalls \cup BackendCalls
  /\ hlsInstance \in IF lastAct.name = "handleHlsError" THEN {0, 1} ELSE {0}
  /\ inst = [a \in Attempts |-> IF a = hlsInstance THEN "alive" ELSE "none"]
  /\ lastPreflightResult \in
       IF lastAct.name = "handleVideoError" THEN PriorVerdicts ELSE {NullVerdict}
  /\ doc = NewDocument
  /\ hlsLoad = NewHlsLoad
  /\ seekTimers = <<>>
  /\ listeners = NoListeners

Returned == [lastAct EXCEPT !.done = TRUE]

\* lastPreflightResult = await preflightCheck(url, false), and the error
\* play() makes of a verdict that is not ok.
CallPreflightCheck ==
  /\ lastAct.name = "preflightCheck" /\ ~lastAct.done
  /\ lastAct' = Returned
  /\ UNCHANGED <<ctl, listeners>>
  /\ LET v == preflightCheck(lastAct) IN
       /\ lastPreflightResult' = v
       /\ thrown' = IF v.ok THEN NoErr ELSE PreflightError(v)
       /\ emitted' = IF v.ok THEN <<>>
                     ELSE <<StateEv("loading_false"), AsEvent(PreflightError(v))>>
  /\ calls' = <<>>
  /\ UNCHANGED <<videoElement, Hls, hlsInstance, currentChannel, isPlaying,
                 video, pc, target, pfTimer, pfStatus, readyTimer, listening,
                 inst, abandoned>>

\* handleHlsError(data)
CallHandleHlsError ==
  /\ lastAct.name = "handleHlsError" /\ ~lastAct.done
  /\ lastAct' = Returned
  /\ UNCHANGED <<ctl, listeners>>
  /\ LET r == handleHlsError(lastAct.data) IN
       /\ thrown' = r.info
       /\ emitted' = IF r.emit THEN <<AsEvent(r.info)>> ELSE <<>>
       /\ calls' = IF r.recover THEN <<"hls.recoverMediaError">> ELSE <<>>
  /\ UNCHANGED <<videoElement, Hls, hlsInstance, currentChannel, isPlaying,
                 lastPreflightResult, video, pc, target, pfTimer, pfStatus,
                 readyTimer, listening, inst, abandoned>>

\* handleVideoError(e); code 0 stands for videoElement.error being null.
CallHandleVideoError ==
  /\ lastAct.name = "handleVideoError" /\ ~lastAct.done
  /\ lastAct' = Returned
  /\ UNCHANGED <<ctl, listeners>>
  /\ LET r == handleVideoError(lastAct.code, lastAct.hevc) IN
       /\ thrown' = r
       /\ emitted' = <<AsEvent(r)>>
  /\ calls' = <<>>
  /\ UNCHANGED <<videoElement, Hls, hlsInstance, currentChannel, isPlaying,
                 lastPreflightResult, video, pc, target, pfTimer, pfStatus,
                 readyTimer, listening, inst, abandoned>>

\* The readiness timer of playNative(url): armed for timeoutMs, and what its
\* callback reports.
CallNativeTimeout ==
  /\ lastAct.name = "playNative" /\ ~lastAct.done
  /\ UNCHANGED <<ctl, listeners>>
  /\ LET isVOD == NativeIsVOD(lastAct.url)
         r == TimeoutReport(lastAct.surf, isVOD)
     IN /\ lastAct' = [name |-> "playNative", done |-> TRUE, url |-> lastAct.url,
                       surf |-> lastAct.surf, ms |-> timeoutMs(isVOD)]
        /\ thrown' = r
        /\ emitted' = <<StateEv("loading_false"), AsEvent(r)>>
  /\ calls' = <<>>
  /\ UNCHANGED <<videoElement, Hls, hlsInstance, currentChannel, isPlaying,
                 lastPreflightResult, video, pc, target, pfTimer, pfStatus,
                 readyTimer, listening, inst, abandoned>>

\* The readiness timer play(channel) arms for address t once it is on the
\* native path.
PlayTimer(t) ==
  timeoutMs(NativeIsVOD(t))

\* play(channel) from the probe's content-kind test to the backend it starts,
\* for the first attempt: probedAsVOD is the test of preflightCheck, ms the
\* readiness timer of playNative (0 when none is armed).
CallSelectBackend ==
  /\ lastAct.name = "play" /\ ~lastAct.done
  /\ lastAct' =
       [name |-> "play", done |-> TRUE, url |-> lastAct.url,
        nativeHLS |-> lastAct.nativeHLS, mse |-> lastAct.mse,
        probedAsVOD |-> ProbeIsVOD(lastAct.url),
        ms |-> IF SelectBackend(lastAct.url, lastAct.nativeHLS, lastAct.mse) = "native"
                 THEN PlayTimer(lastAct.url) ELSE 0]
  /\ UNCHANGED <<ctl, listeners>>
  /\ BackendBranch(1, lastAct.url, video, <<>>, <<>>, abandoned,
                   lastAct.nativeHLS, lastAct.mse)
  /\ UNCHANGED <<videoElement, Hls, hlsInstance, currentChannel, isPlaying,
                 lastPreflightResult, pfTimer, pfStatus, inst>>

ClassifyNext ==
  \/ CallSelectBackend
  \/ CallPreflightCheck
  \/ CallHandleHlsError
  \/ CallHandleVideoError
  \/ CallNativeTimeout

ClassifySpec == ClassifyInit /\ [][ClassifyNext]_vars

\* ======================================================= seek and controls
\* The sessions seek() and the transport controls are called on: before
\* init(), idle after init(), a native session waiting for the surface, a
\* native session playing, a library session playing.
SurfaceSessions == {"uninitialized", "idle", "waiting", "native", "hls"}

SurfaceInit ==
  \E k \in SurfaceSessions :
    /\ videoElement = (k # "uninitialized")
    /\ Hls = (k = "hls")
    /\ hlsInstance = IF k = "hls" THEN 1 ELSE 0
    /\ currentChannel =
         CASE k \in {"waiting", "native"} -> "movie"
           [] k = "hls" -> "live"
           [] OTHER -> Null
    /\ isPlaying = (k \in {"native", "hls"})
    /\ lastPreflightResult =
         CASE k \in {"waiting", "native"} -> VodVerdict(200)
           [] k = "hls" -> ManifestVerdict(200, Body(TRUE, TRUE, FALSE, 1))
           [] OTHER -> NullVerdict
    /\ video =
         CASE k = "waiting" -> [NewSurface EXCEPT !.src = "native"]
           [] k = "native" -> [NewSurface EXCEPT !.src = "native", !.paused = FALSE]
           [] k = "hls" -> [NewSurface EXCEPT !.src = "hls", !.paused = FALSE]
           [] OTHER -> NewSurface
    /\ pc = [a \in Attempts |->
               IF a # 1 \/ k \in {"uninitialized", "idle"} THEN "free"
               ELSE IF k = "waiting" THEN "nativeWait" ELSE "resolved"]
    /\ target = [a \in Attempts |-> IF a = 1 /\ k = "waiting" THEN "movie" ELSE Null]
    /\ pfTimer = [a \in Attempts |-> FALSE]
    /\ pfStatus = [a \in Attempts |-> NoStatus]
    /\ readyTimer = [a \in Attempts |-> a = 1 /\ k = "waiting"]
    /\ listening = [a \in Attempts |-> a = 1 /\ k = "waiting"]
    /\ inst = [a \in Attempts |-> IF a = 1 /\ k = "hls" THEN "alive" ELSE "none"]
    /\ thrown = NoErr
    /\ abandoned = [a \in Attempts |-> FALSE]
    /\ emitted = <<>>
    /\ calls = <<>>
    /\ lastAct = Act("Init", 0)
    /\ doc = NewDocument
    /\ hlsLoad = NewHlsLoad
    /\ seekTimers = <<>>
  /\ listeners = NoListeners

\* ------------------------------------------------------------------ seek()
\* The number of grace timers pending at once.
MaxTimers == 2

\* Positions seek() is called with, and positions the surface reports, in
\* seconds.
SeekTimes == {0, 120}
Positions == {0, 117, 118, 120, 122, 123}

\* Math.abs
Abs(x) == IF x < 0 THEN 0 - x ELSE x

\* A check that takes a distance of exactly the tolerance for a miss.
SeekMissedAtTolerance(pos, time) == Abs(pos - time) >= 2

\* Math.abs(videoElement.currentTime - time) > 2
SeekMissed(pos, time) == Abs(pos - time) > 2

\* hlsInstance && hlsInstance.media: attachMedia() follows the creation of
\* the instance in the same step, and destroy() comes with the reference
\* being cleared.
HlsActive == hlsInstance # 0

ActSeek(n, a, time) == [name |-> n, att |-> a, proxy |-> FALSE, time |-> time]

\* seek(time)
Seek(time) ==
  /\ Len(seekTimers) < MaxTimers
  /\ lastAct' = ActSeek("Seek", hlsInstance, time)
  /\ emitted' = <<>>
  /\ thrown' = NoErr
  /\ IF ~videoElement
       THEN /\ calls' = <<"return false">>
            /\ UNCHANGED <<video, hlsLoad, seekTimers>>
       ELSE IF HlsActive
         THEN /\ hlsLoad' = [hlsLoad EXCEPT ![hlsInstance].startPosition = time]
              /\ video' = [video EXCEPT !.currentTime = time]
              /\ seekTimers' = Append(seekTimers, [time |-> time, att |-> hlsInstance])
              /\ calls' = <<"hls.startPosition", "currentTime", "setTimeout">>
         ELSE /\ video' = [video EXCEPT !.currentTime = time]
              /\ calls' = <<"currentTime">>
              /\ UNCHANGED <<hlsLoad, seekTimers>>
  /\ UNCHANGED <<videoElement, Hls, hlsInstance, currentChannel, isPlaying,
                 lastPreflightResult, pc, target, pfTimer, pfStatus,
                 readyTimer, listening, inst, abandoned, doc, listeners>>

\* The oldest grace timer of seek() fires: the callback compares the
\* surface's position with the time sought and restarts the load of the
\* instance hlsInstance references now; there being none, the call on null
\* throws.
SeekCheck ==
  /\ seekTimers # <<>>
  /\ LET tm == Head(seekTimers)
         missed == SeekMissed(video.currentTime, tm.time)
     IN /\ seekTimers' = Tail(seekTimers)
        /\ lastAct' = ActSeek("SeekCheck", tm.att, tm.time)
        /\ IF missed /\ hlsInstance # 0
             THEN /\ calls' = <<"hls.stopLoad", "hls.startLoad">>
                  /\ hlsLoad' = [hlsLoad EXCEPT ![hlsInstance].loadFrom = tm.time]
                  /\ thrown' = NoErr
             ELSE /\ calls' = <<>>
                  /\ thrown' = IF missed
                                 THEN ErrRec(Null, "TypeError: hlsInstance is null",
                                             Null, NoStatus)
                                 ELSE NoErr
                  /\ UNCHANGED hlsLoad
  /\ emitted' = <<>>
  /\ UNCHANGED <<videoElement, Hls, hlsInstance, currentChannel, isPlaying,
                 lastPreflightResult, video, pc, target, pfTimer, pfStatus,
                 readyTimer, listening, inst, abandoned, doc, listeners>>

TimeEv ==
  [ch |-> "onTimeUpdate", payload |-> "currentTime_duration", type |-> Null,
   message |-> Null, hint |-> Null, status |-> NoStatus]

\* The surface, having a source, reports position p and dispatches
\* timeupdate: the listener of init() emits onTimeUpdate.
TimeUpdate(p) ==
  /\ video.src # "none"
  /\ video' = [video EXCEPT !.currentTime = p]
  /\ emitted' = <<TimeEv>>
  /\ calls' = <<>>
  /\ thrown' = NoErr
  /\ lastAct' = Act("TimeUpdate", 0)
  /\ UNCHANGED <<videoElement, Hls, hlsInstance, currentChannel, isPlaying,
                 lastPreflightResult, pc, target, pfTimer, pfStatus,
                 readyTimer, listening, inst, abandoned>>
  /\ UNCHANGED <<ctl, listeners>>

SeekNext ==
  \/ \E t \in SeekTimes : Seek(t)
  \/ SeekCheck
  \/ \E p \in Positions : TimeUpdate(p)
  \/ Stop

SeekSpec == SurfaceInit /\ [][SeekNext]_vars

\* ---------------------------------------------------------------- controls
\* Math.max, Math.min
Max(a, b) == IF a >= b THEN a ELSE b
Min(a, b) == IF a <= b THEN a ELSE b

\* A volume that is passed on as given.
setVolumeUnclamped(volume) == volume

\* Math.max(0, Math.min(1, volume)), in hundredths.
setVolume(volume) == Max(0, Min(100, volume))

\* Volumes setVolume() is called with, in hundredths.
Volumes == {0 - 50, 0, 30, 100, 150}

\* What every control leaves alone.
ControlFrame ==
  UNCHANGED <<videoElement, Hls, hlsInstance, currentChannel,
              lastPreflightResult, pc, target, pfTimer, pfStatus, readyTimer,
              listening, inst, abandoned, hlsLoad, seekTimers, listeners>>

\* togglePlay(): play() and pause() dispatch play and pause, which the
\* listeners of init() turn into isPlaying and a state change.
TogglePlay ==
  /\ lastAct' = Act("TogglePlay", 0)
  /\ thrown' = NoErr
  /\ IF ~videoElement
       THEN /\ calls' = <<>> /\ emitted' = <<>>
            /\ UNCHANGED <<video, isPlaying>>
       ELSE IF video.paused
         THEN /\ video' = VPlay(video)
              /\ isPlaying' = TRUE
              /\ emitted' = PlayEvents(video)
              /\ calls' = <<"play">>
         ELSE /\ video' = VPause(video)
              /\ isPlaying' = FALSE
              /\ emitted' = PauseEvents(video)
              /\ calls' = <<"pause">>
  /\ UNCHANGED doc
  /\ ControlFrame

\* setVolume(volume)
SetVolume(volume) ==
  /\ lastAct' = [name |-> "SetVolume", att |-> 0, proxy |-> FALSE, volume |-> volume]
  /\ thrown' = NoErr
  /\ emitted' = <<>>
  /\ calls' = <<>>
  /\ video' = IF videoElement THEN [video EXCEPT !.volume = setVolume(volume)]
              ELSE video
  /\ UNCHANGED <<isPlaying, doc>>
  /\ ControlFrame

\* videoElement?.volume || 1, in hundredths: a volume of 0 is falsy.
getVolume ==
  IF videoElement /\ video.volume # 0 THEN video.volume ELSE 100

\* getVolume(); ret is what it returns.
GetVolume ==
  /\ lastAct' = [name |-> "GetVolume", att |-> 0, proxy |-> FALSE, ret |-> getVolume]
  /\ thrown' = NoErr
  /\ emitted' = <<>>
  /\ calls' = <<>>
  /\ UNCHANGED <<video, isPlaying, doc>>
  /\ ControlFrame

\* toggleMute()
ToggleMute ==
  /\ lastAct' = Act("ToggleMute", 0)
  /\ thrown' = NoErr
  /\ emitted' = <<>>
  /\ calls' = <<>>
  /\ video' = IF videoElement THEN [video EXCEPT !.muted = ~video.muted]
              ELSE video
  /\ UNCHANGED <<isPlaying, doc>>
  /\ ControlFrame

\* enterFullscreen(): nothing without a container; the host grants the
\* request or rejects it, and a rejection is caught.
enterFullscreen(granted) ==
  [doc EXCEPT !.fullscreen = doc.fullscreen \/ (videoElement /\ granted)]

\* exitFullscreen(): the host leaves fullscreen or rejects, and a rejection
\* is caught.
exitFullscreen(granted) ==
  [doc EXCEPT !.fullscreen = doc.fullscreen /\ ~granted]

\* enterPiP(): nothing without a surface or with picture-in-picture
\* disabled; a rejection is caught.
enterPiP(enabled, granted) ==
  [doc EXCEPT !.pip = doc.pip \/ (videoElement /\ enabled /\ granted)]

\* exitPiP(): only when an element is in picture-in-picture.
exitPiP(granted) ==
  [doc EXCEPT !.pip = doc.pip /\ ~granted]

\* A control that works on the document only.
DocumentControl(d) ==
  /\ thrown' = NoErr
  /\ emitted' = <<>>
  /\ calls' = <<>>
  /\ doc' = d
  /\ UNCHANGED <<video, isPlaying>>
  /\ ControlFrame

EnterFullscreen(granted) ==
  /\ lastAct' = Act("EnterFullscreen", 0)
  /\ DocumentControl(enterFullscreen(granted))

ExitFullscreen(granted) ==
  /\ lastAct' = Act("ExitFullscreen", 0)
  /\ DocumentControl(exitFullscreen(granted))

\* toggleFullscreen()
ToggleFullscreen(granted) ==
  /\ lastAct' = Act("ToggleFullscreen", 0)
  /\ DocumentControl(IF doc.fullscreen THEN exitFullscreen(granted)
                     ELSE enterFullscreen(granted))

EnterPiP(enabled, granted) ==
  /\ lastAct' = Act("EnterPiP", 0)
  /\ DocumentControl(enterPiP(enabled, granted))

ExitPiP(granted) ==
  /\ lastAct' = Act("ExitPiP", 0)
  /\ DocumentControl(exitPiP(granted))

\* togglePiP()
TogglePiP(enabled, granted) ==
  /\ lastAct' = Act("TogglePiP", 0)
  /\ DocumentControl(IF doc.pip THEN exitPiP(granted)
                     ELSE enterPiP(enabled, granted))

ControlNext ==
  \/ TogglePlay
  \/ \E v \in Volumes : SetVolume(v)
  \/ GetVolume
  \/ ToggleMute
  \/ \E g \in BOOLEAN : EnterFullscreen(g)
  \/ \E g \in BOOLEAN : ExitFullscreen(g)
  \/ \E g \in BOOLEAN : ToggleFullscreen(g)
  \/ \E e \in BOOLEAN, g \in BOOLEAN : EnterPiP(e, g)
  \/ \E g \in BOOLEAN : ExitPiP(g)
  \/ \E e \in BOOLEAN, g \in BOOLEAN : TogglePiP(e, g)

ControlSpec == SurfaceInit /\ [][ControlNext]_vars

\* ============================================================ event system
\* The number of callbacks registered on one channel.
MaxListeners == 2

\* The callback functions the application registers.
Callbacks == {"f", "g"}

\* Event names on(), off() and emit() are called with: the three channels
\* and a name the listeners object has no property for.
EventNames == EventChannels \cup {"onOther"}

\* What a callback does when it is invoked: return, throw, or call on() or
\* off() for a callback on the channel it is invoked from.
Behaviour(do, cb) == [do |-> do, cb |-> cb]
Behaviours ==
  {Behaviour("return", Null), Behaviour("throw", Null)} \cup
  {Behaviour(d, cb) : d \in {"on", "off"}, cb \in Callbacks}

\* Array.prototype.indexOf, counting from 1 (0 for -1)
IndexOf(list, cb) ==
  IF \E i \in 1..Len(list) : list[i] = cb
    THEN CHOOSE i \in 1..Len(list) :
           list[i] = cb /\ \A j \in 1..(i - 1) : list[j] # cb
    ELSE 0

\* list.splice(idx, 1)
Splice(list, idx) ==
  [i \in 1..(Len(list) - 1) |-> IF i < idx THEN list[i] ELSE list[i + 1]]

\* An off() that removes every registration of the callback.
offEvery(ls, event, cb) ==
  IF event \in DOMAIN ls
    THEN [ls EXCEPT ![event] = SelectSeq(@, LAMBDA x : x # cb)]
    ELSE ls

\* on(event, callback), on the listeners object ls
on(ls, event, cb) ==
  IF event \in DOMAIN ls THEN [ls EXCEPT ![event] = Append(@, cb)] ELSE ls

\* off(event, callback)
off(ls, event, cb) ==
  IF event \in DOMAIN ls
    THEN LET idx == IndexOf(ls[event], cb)
         IN IF idx # 0 THEN [ls EXCEPT ![event] = Splice(@, idx)] ELSE ls
    ELSE ls

\* cb(data) for a callback of behaviour b, invoked from channel event
Invoke(ls, event, b) ==
  CASE b.do = "on" -> on(ls, event, b.cb)
    [] b.do = "off" -> off(ls, event, b.cb)
    [] OTHER -> ls

\* listeners[event].forEach(cb => { try { cb(data) } catch ... }): the
\* indices below the length the array had at the start are visited in
\* order, on the array as it is when each is reached; an index the array no
\* longer has is passed over.
RECURSIVE forEach(_, _, _, _, _, _)
forEach(ls, event, k, len, does, log) ==
  IF k > len THEN [listeners |-> ls, log |-> log]
  ELSE IF k > Len(ls[event]) THEN forEach(ls, event, k + 1, len, does, log)
  ELSE LET cb == ls[event][k]
       IN forEach(Invoke(ls, event, does[cb]), event, k + 1, len, does,
                  Append(log, cb))

\* emit(event, data), the callbacks behaving as does says
emit(ls, event, does) ==
  IF event \in DOMAIN ls
    THEN forEach(ls, event, 1, Len(ls[event]), does, <<>>)
    ELSE [listeners |-> ls, log |-> <<>>]

EventFrame ==
  UNCHANGED <<videoElement, Hls, hlsInstance, currentChannel, isPlaying,
              lastPreflightResult, video, pc, target, pfTimer, pfStatus,
              readyTimer, listening, inst, abandoned, doc, hlsLoad,
              seekTimers>>

\* The step that ran last: before is the channel's list when it began;
\* returned says that the call is one of the function the on() call before
\* it returned, again that this function had been called already.
ActEvent(n, event, cb) ==
  LET same == lastAct.name \in {"on", "off"} /\ lastAct.event = event
                /\ lastAct.cb = cb
      returned == n = "off" /\ same /\ (lastAct.name = "on" \/ lastAct.returned)
  IN [name |-> n, att |-> 0, proxy |-> FALSE, event |-> event, cb |-> cb,
      before |-> IF event \in DOMAIN listeners THEN listeners[event] ELSE <<>>,
      returned |-> returned,
      again |-> returned /\ lastAct.name = "off"]

\* on(event, callback); the function it returns is Off with the same
\* arguments.
On(event, cb) ==
  /\ event \in DOMAIN listeners => Len(listeners[event]) < MaxListeners
  /\ listeners' = on(listeners, event, cb)
  /\ lastAct' = ActEvent("on", event, cb)
  /\ emitted' = <<>>
  /\ calls' = <<>>
  /\ thrown' = NoErr
  /\ EventFrame

\* off(event, callback), called directly or as the function on() returned
Off(event, cb) ==
  /\ listeners' = off(listeners, event, cb)
  /\ lastAct' = ActEvent("off", event, cb)
  /\ emitted' = <<>>
  /\ calls' = <<>>
  /\ thrown' = NoErr
  /\ EventFrame

\* The behaviours of the callbacks an emit can reach; one that is not
\* registered on the channel is not invoked, whatever it would do.
Registered(event) ==
  IF event \in DOMAIN listeners
    THEN {listeners[event][i] : i \in 1..Len(listeners[event])}
    ELSE {}

EmitInputs(event) ==
  {does \in [Callbacks -> Behaviours] :
     \A cb \in Callbacks \ Registered(event) : does[cb] = Behaviour("return", Null)}

\* emit(event, data); calls are the callbacks invoked, in order.
Emit(event, does) ==
  LET r == emit(listeners, event, does) IN
  /\ does \in EmitInputs(event)
  /\ \A e \in DOMAIN r.listeners : Len(r.listeners[e]) <= MaxListeners
  /\ listeners' = r.listeners
  /\ calls' = r.log
  /\ lastAct' = [name |-> "emit", att |-> 0, proxy |-> FALSE, event |-> event]
  /\ emitted' = <<>>
  /\ thrown' = NoErr
  /\ EventFrame

EventNext ==
  \/ \E e \in EventNames, cb \in Callbacks : On(e, cb)
  \/ \E e \in EventNames, cb \in Callbacks : Off(e, cb)
  \/ \E e \in EventNames, does \in [Callbacks -> Behaviours] : Emit(e, does)

EventSpec == Init /\ [][EventNext]_vars

\* ===================================================================== claims
\* The session fields of player.js and the state of the surface.
session ==
  <<hlsInstance, inst, currentChannel, isPlaying, lastPreflightResult, video>>

InProbe(a) == pc[a] \in {"fetch", "body"}
InWait(a) == pc[a] \in {"nativeWait", "hlsWait"}

Has(seq, e) == \E i \in 1..Len(seq) : seq[i] = e
Count(seq, e) == Cardinality({i \in 1..Len(seq) : seq[i] = e})

\* C1: once stop() has run while a play() attempt is suspended in its
\* preflight probe, the completion of that probe leaves the session alone:
\* the last verdict is not written, no backend is attached, no source is
\* assigned, and nothing is emitted.
C1_AbandonedProbeInert ==
  [][\A a \in Attempts :
       (abandoned[a] /\ InProbe(a) /\ ~InProbe(a)')
         => (session' = session /\ emitted' = <<>>)]_vars

\* C1, the case named by the claim: stop() was called mid-probe, no newer
\* play() followed, and the probe's failure has been stored and reported.
C1_StaleVerdictStored ==
  /\ lastAct.name \in {"ProbeResponse", "ProbeBody", "ProbeFail", "PreflightTimeout"}
  /\ currentChannel = Null
  /\ lastPreflightResult # NullVerdict
  /\ emitted # <<>>

\* C2: at most one live library-backed instance exists and at most one
\* backend (a live instance, or a native source) is attached to the surface.
AliveInstances == {i \in Attempts : inst[i] = "alive"}

C2_OneBackend ==
  Cardinality(AliveInstances) + (IF video.src = "native" THEN 1 ELSE 0) <= 1

\* C2, the case of two library-backed instances alive at once.
C2_TwoInstances == Cardinality(AliveInstances) >= 2

\* C3: an attempt abandoned while it waits for backend readiness is not
\* settled by any later ready signal, decode error or readiness timeout.
C3_AbandonedWaitInert ==
  [][\A a \in Attempts :
       (abandoned[a] /\ InWait(a)) => pc'[a] = pc[a]]_vars

\* C3, the case named by the claim: one ready signal of the surface resolved
\* two attempts, the newer one and the older one it had abandoned.
C3_ReadyResolvesBoth ==
  /\ lastAct.name = "VideoReady"
  /\ Count(emitted, StateEv("loading_false")) >= 2

\* C4: an attempt that waits for backend readiness eventually settles, by a
\* ready signal, a fatal error or the readiness timer.
C4_WaitSettles ==
  \A a \in Attempts : InWait(a) ~> (pc[a] \in Settled)

\* C5: the kind the classifier gives to a verdict that is not ok.
C5_Kind(e) ==
  CASE e = "blocked"         -> "blocked"
    [] e = "cors_or_network" -> "cors"
    [] e = "empty_stream"    -> "empty_stream"
    [] e = "timeout"         -> "network"
    [] e = "http_error"      -> "network"
    [] OTHER                 -> "network"

\* C5: when the probe of an attempt ends with a verdict that is not ok,
\* play() rejects with the report whose kind classifies the verdict and
\* whose status is the verdict's (403 on an on-demand address: blocked, 403);
\* the same report is emitted on the error channel; the step attaches no
\* backend and assigns no source; and the rejected attempt stays rejected and
\* never attaches anything afterwards.
C5_PreflightFailureRejects ==
  [][\A a \in Attempts :
       /\ (InProbe(a) /\ ~InProbe(a)' /\ ~lastPreflightResult'.ok)
            => LET v == lastPreflightResult' IN
               /\ pc'[a] = "rejected"
               /\ thrown' = ErrRec(C5_Kind(v.error), v.message,
                                   getErrorHint(C5_Kind(v.error)), v.status)
               /\ (v.status = 403 /\ TargetUrl[target[a]].vod
                     => thrown'.type = "blocked" /\ thrown'.status = 403)
               /\ Has(emitted', AsEvent(thrown'))
               /\ video' = video /\ inst' = inst /\ hlsInstance' = hlsInstance
               /\ calls' = <<>>
               /\ ~listening'[a] /\ ~readyTimer'[a]
       /\ (pc[a] = "rejected" /\ inst[a] = "none")
            => /\ pc'[a] = "rejected"
               /\ inst'[a] = "none"
               /\ ~listening'[a] /\ ~readyTimer'[a]]_vars

\* C5 witness: an on-demand target answered 403 has been rejected as blocked.
C5_Witness ==
  /\ lastAct.name = "ProbeResponse"
  /\ pc[lastAct.att] = "rejected"
  /\ thrown.type = "blocked" /\ thrown.status = 403
  /\ lastPreflightResult.status = 403

\* C6: an address that goes through the configured proxy (rewritten by
\* play(), or arriving already rewritten) is never probed.
C6_ProxiedNeverProbed ==
  \A a \in Attempts : InProbe(a) => ~TargetUrl[target[a]].viaProxy

\* C7: after stop(): the referenced instance is destroyed and the reference
\* cleared, the surface has no source, the target is null, the playing flag
\* is false, the last verdict is null, and the call emitted exactly one
\* state-change {playing:false, channel:null}.
C7_StopPostcondition ==
  [][lastAct'.name = "Stop"
       => /\ hlsInstance' = 0
          /\ (hlsInstance # 0 => inst'[hlsInstance] = "destroyed")
          /\ (videoElement => video'.src = "none")
          /\ currentChannel' = Null
          /\ ~isPlaying'
          /\ lastPreflightResult' = NullVerdict
          /\ Count(emitted', StateEv("playing_false_channel_null")) = 1]_vars

\* C7 witness: stop() has destroyed the attached instance of a session that
\* was playing.
C7_Witness ==
  /\ lastAct.name = "Stop"
  /\ Has(calls, "hls.destroy")
  /\ Has(emitted, StateEv("playing_false"))
  /\ \E a \in Attempts : inst[a] = "destroyed"

\* C8 as claimed: the second of two consecutive stop() calls changes no
\* session field, emits nothing, calls nothing and does not raise.
C8_SecondStopNoOp ==
  [][(lastAct.name = "Stop" /\ lastAct'.name = "Stop")
       => /\ session' = session
          /\ emitted' = <<>>
          /\ calls' = <<>>
          /\ thrown' = NoErr]_vars

\* C8 as amended: stop() never raises (also before init()); the second of
\* two consecutive calls changes no session field, and it repeats the calls
\* on the surface and emits one more state-change {playing:false,
\* channel:null}.
C8_SecondStopIdempotent ==
  [][lastAct'.name = "Stop"
       => /\ thrown' = NoErr
          /\ lastAct.name = "Stop"
               => /\ session' = session
                  /\ emitted' = <<StateEv("playing_false_channel_null")>>
                  /\ calls' = IF videoElement
                                THEN <<"pause", "removeAttribute", "load">>
                                ELSE <<>>]_vars

\* C8 witness: stop() has run twice in a row on an initialised player.
C8_Witness == lastAct = Act("Stop", 2) /\ videoElement

\* C9: a timer callback runs only for an attempt that was not torn down and
\* whose guarded outcome is still open (the fetch, the readiness wait).
C9_NoLateTimer ==
  [][\A a \in Attempts :
       (lastAct'.att = a /\ lastAct'.name \in {"PreflightTimeout", "NativeTimeout"})
         => (~abandoned[a] /\ pc[a] \in {"fetch", "nativeWait"})]_vars

\* C9, the case named by the claim: after stop() during native loading, with
\* no newer play(), the readiness timer has fired and emitted its error.
C9_TimeoutAfterStop ==
  /\ lastAct.name = "NativeTimeout"
  /\ currentChannel = Null
  /\ \E i \in 1..Len(emitted) : emitted[i].ch = "onError"

\* C10: the abort timer is armed for the whole probe, the read of the body
\* included.
C10_TimerArmedWholeProbe ==
  \A a \in Attempts : InProbe(a) => pfTimer[a]

\* A call of the classifiers has returned.
Done(n) == lastAct.name = n /\ lastAct.done

\* C11: the readiness timer of playNative is strictly shorter for an address
\* with an on-demand file extension than for any live address.
C11_VodTimerShorter ==
  (Done("playNative") /\ NativeIsVOD(lastAct.url))
    => \A t \in AllTargets :
         ~NativeIsVOD(t) => lastAct.ms < timeoutMs(NativeIsVOD(t))

\* C12: for a media error of an attached backend, a non-fatal one asks the
\* backend to recover exactly once and is not reported; a fatal one is not
\* recovered and is reported at once with kind media.
C12_MediaSelfHeal ==
  (Done("handleHlsError") /\ lastAct.data.type = "mediaError" /\ hlsInstance # 0)
    => IF lastAct.data.fatal
         THEN /\ calls = <<>>
              /\ thrown.type = ErrorTypes.MEDIA
              /\ emitted = <<AsEvent(thrown)>>
         ELSE /\ calls = <<"hls.recoverMediaError">>
              /\ emitted = <<>>

\* C12, the case of a fatal media error: recovery is asked for and no report
\* reaches the error channel.
C12_FatalMediaSuppressed ==
  /\ Done("handleHlsError")
  /\ lastAct.data.type = "mediaError" /\ lastAct.data.fatal
  /\ calls = <<"hls.recoverMediaError">>
  /\ emitted = <<>>

\* C13: a fatal backend error of any category that arrives before the ready
\* signal rejects the attempt, is emitted on the error channel with the kind,
\* message and hint play() rejects with, and leaves no instance of the
\* attempt attached.
C13_FatalErrorTerminates ==
  [][\A a \in Attempts, d \in SessionHlsErrors :
       (HlsError(a, d) /\ d.fatal /\ pc[a] = "hlsWait")
         => /\ pc'[a] = "rejected"
            /\ thrown' = handleHlsError(d).info
            /\ emitted' = <<AsEvent(thrown')>>
            /\ inst'[a] # "alive"
            /\ hlsInstance' # a]_vars

\* C13, the case of a fatal network error: the attempt is rejected and its
\* instance is still alive and referenced.
C13_RejectedStillAttached ==
  /\ lastAct.name = "HlsError"
  /\ thrown # NoErr
  /\ pc[lastAct.att] = "rejected"
  /\ inst[lastAct.att] = "alive"
  /\ hlsInstance = lastAct.att

\* C14: each kind carries one fixed hint: the report a classifier has just
\* produced has the hint that the preflight classification of play() gives
\* to a report of the same kind.
C14_OneHintPerKind ==
  (lastAct.name \in {"handleHlsError", "handleVideoError", "playNative"}
     /\ lastAct.done)
    => \A v \in PriorVerdicts :
         (v # NullVerdict /\ ~v.ok /\ PreflightError(v).type = thrown.type)
           => PreflightError(v).hint = thrown.hint

\* C14, a case: the library-backend classification reports kind blocked with
\* the hint of kind cors.
C14_BlockedWithCorsHint ==
  /\ Done("handleHlsError")
  /\ thrown.type = ErrorTypes.BLOCKED
  /\ thrown.hint = getErrorHint(ErrorTypes.CORS)
  /\ getErrorHint(ErrorTypes.CORS) # getErrorHint(ErrorTypes.BLOCKED)

\* The fixed taxonomy of kinds.
Taxonomy == {ErrorTypes[k] : k \in DOMAIN ErrorTypes}

\* C15: every report, emitted on the error channel or carried by a play()
\* that rejects during playback, has a kind of the taxonomy, a message and a
\* hint.
C15_ReportShape ==
  /\ \A i \in 1..Len(emitted) :
       emitted[i].ch = "onError"
         => /\ emitted[i].type \in Taxonomy
            /\ emitted[i].message # Null
            /\ emitted[i].hint # Null
  /\ (thrown # NoErr /\ lastAct.name # "PlayNotInitialized")
       => /\ thrown.type \in Taxonomy
          /\ thrown.message # Null
          /\ thrown.hint # Null

\* C15, the case of playNative.onError: play() has rejected with an error
\* that has a message and neither kind nor hint.
C15_PlaybackFailedWithoutKind ==
  /\ lastAct.name = "VideoError"
  /\ thrown.message = "Playback failed"
  /\ thrown.type = Null /\ thrown.hint = Null

\* A library-backend error signal that no classification rule names.
C16_Unmatched(d) ==
  /\ d.type = "otherError"
  /\ d.details \notin {"manifestLoadError", "manifestParsingError"}
  /\ d.code \notin BLOCKED_STATUS_CODES

\* C16: a failure signal that matches no rule is reported with kind unknown
\* and a hint that is not empty, and every failure signal given to a
\* classifier is emitted on the error channel.
C16_UnknownFallback ==
  /\ (Done("handleHlsError") /\ C16_Unmatched(lastAct.data))
       => thrown.type = ErrorTypes.UNKNOWN /\ thrown.hint # ""
  /\ (Done("handleVideoError") /\ lastAct.code = 0
        /\ (lastPreflightResult = NullVerdict \/ lastPreflightResult.ok))
       => thrown.type = ErrorTypes.UNKNOWN /\ thrown.hint # ""
  /\ (Done("handleHlsError") \/ Done("handleVideoError"))
       => emitted = <<AsEvent(thrown)>>

\* C16, a case: the library-backend fallback has emitted kind unknown with
\* an empty hint.
C16_UnknownWithEmptyHint ==
  /\ Done("handleHlsError")
  /\ C16_Unmatched(lastAct.data)
  /\ thrown.type = ErrorTypes.UNKNOWN /\ thrown.hint = ""
  /\ emitted = <<AsEvent(thrown)>>

\* A probe that got a response has returned its verdict.
Probed == Done("preflightCheck") /\ lastAct.failure = Null

\* The blocking set, as the claim lists it.
C17_Blocking == {401, 403, 451, 458, 459, 460}

\* C17: for an on-demand address the verdict is ok for 200 and 206, blocked
\* for every status of the blocking set, and http_error for every other
\* status outside 2xx; the body is not read.
C17_VodVerdict ==
  (Probed /\ ProbeIsVOD(lastAct.url))
    => LET st == lastAct.status
           v == lastPreflightResult
       IN /\ st \in {200, 206} => v.ok
          /\ st \in C17_Blocking => (~v.ok /\ v.error = "blocked")
          /\ (st \notin C17_Blocking /\ (st < 200 \/ st > 299))
               => (~v.ok /\ v.error = "http_error")
          /\ ~lastAct.readable

\* C17, the case: an on-demand address answered 404 gets the kind network.
C17_VodNotFoundIsNetwork ==
  /\ Probed /\ ProbeIsVOD(lastAct.url)
  /\ lastAct.status = 404
  /\ lastPreflightResult.error = "network"

\* What the claim reads in a body: the manifest marker, an end-of-list
\* marker, and the lines that are sub-resource URIs.
C18_HasMarker(b) == \E i \in 1..Len(b) : b[i] = "#EXTM3U"
C18_HasEndList(b) ==
  \E i \in 1..Len(b) : b[i] \in {"#EXT-X-ENDLIST", " #EXT-X-ENDLIST "}
C18_Uris(b) == {i \in 1..Len(b) : b[i] = "seg1.ts"}

VerdictKind(v) == IF v.ok THEN "ok" ELSE v.error

\* C19: the kind of every verdict is one of ok, blocked, cors_or_network,
\* timeout, empty_stream, http_error.
C19_VerdictKinds ==
  Done("preflightCheck")
    => VerdictKind(lastPreflightResult) \in
         {"ok", "blocked", "cors_or_network", "timeout", "empty_stream",
          "http_error"}

\* C19, a case: a fetch that failed with another exception gets the kind
\* unknown.
C19_UnknownVerdict ==
  Done("preflightCheck") /\ VerdictKind(lastPreflightResult) = "unknown"

\* C20: a failed fetch is reported as timeout exactly when the timer aborted
\* it; every other failure is reported as cors_or_network, and play()
\* rejects with kind cors.
C20_TransportFailures ==
  Done("preflightCheck")
    => /\ (lastPreflightResult.error = "timeout") <=> (lastAct.failure = "abort")
       /\ lastAct.failure \notin {Null, "abort"}
            => /\ lastPreflightResult.error = "cors_or_network"
               /\ thrown.type = ErrorTypes.CORS

\* C20, the case: a failure other than the timer's, whose message is not
\* "Failed to fetch", is rejected by play() with kind network.
C20_OtherFailureIsNetwork ==
  /\ Done("preflightCheck")
  /\ lastAct.failure = "other"
  /\ lastPreflightResult.error = "unknown"
  /\ thrown.type = ErrorTypes.NETWORK

\* The mapping of verdict kinds to report kinds, as the claim lists it.
C21_Map(e) ==
  CASE e = "blocked"         -> "blocked"
    [] e = "cors_or_network" -> "cors"
    [] e = "timeout"         -> "network"
    [] e = "empty_stream"    -> "empty_stream"
    [] e = "http_error"      -> "network"

\* C21: play() classifies a verdict that is not ok by the fixed mapping of
\* its kind (blocked, cors_or_network, timeout, empty_stream, http_error),
\* for every verdict of these kinds that preflightCheck returns.
C21_PreflightMapping ==
  (Done("preflightCheck") /\ ~lastPreflightResult.ok
     /\ lastPreflightResult.error \in
          {"blocked", "cors_or_network", "timeout", "empty_stream", "http_error"})
    => /\ thrown.type = C21_Map(lastPreflightResult.error)
       /\ Has(emitted, AsEvent(thrown))

\* C21 witness: a probe aborted by the timer has been classified as network.
C21_Witness ==
  /\ Done("preflightCheck")
  /\ lastAct.failure = "abort"
  /\ lastPreflightResult.error = "timeout"
  /\ thrown.type = "network"

\* C22: with a last verdict that is not ok, handleVideoError reports what
\* play() makes of that verdict (kind, message and hint), whatever the
\* MediaError code.
C22_NativeFollowsPreflight ==
  (Done("handleVideoError") /\ lastPreflightResult # NullVerdict
     /\ ~lastPreflightResult.ok)
    => /\ thrown.type = PreflightError(lastPreflightResult).type
       /\ thrown.message = lastPreflightResult.message
       /\ thrown.hint = PreflightError(lastPreflightResult).hint

\* C22, the case: with an empty_stream verdict the decode error is reported
\* with kind network.
C22_EmptyStreamAsNetwork ==
  /\ Done("handleVideoError")
  /\ lastPreflightResult.error = "empty_stream"
  /\ thrown.type = "network"

\* No verdict that is not ok is retained.
NoFailedVerdict == lastPreflightResult = NullVerdict \/ lastPreflightResult.ok

\* C23: with no failed verdict, MediaError code 1 (aborted) puts nothing on
\* the error channel, code 2 gives kind network, code 3 kind media, and
\* code 4 kind codec when HEVC is unsupported and kind blocked otherwise.
C23_NativeByCode ==
  (Done("handleVideoError") /\ NoFailedVerdict)
    => /\ lastAct.code = 1 => emitted = <<>>
       /\ lastAct.code = 2 => thrown.type = "network"
       /\ lastAct.code = 3 => thrown.type = "media"
       /\ lastAct.code = 4
            => thrown.type = IF lastAct.hevc THEN "blocked" ELSE "codec"

\* C23, the case: an aborted load has been reported on the error channel
\* with kind unknown.
C23_AbortedIsReported ==
  /\ Done("handleVideoError") /\ NoFailedVerdict
  /\ lastAct.code = 1
  /\ thrown.type = "unknown" /\ thrown.message = "Playback aborted"
  /\ emitted = <<AsEvent(thrown)>>

\* C24: a network error without response code is blocked for a failed
\* manifest load, blocked for a failed fragment load and network otherwise;
\* a manifest load or parse failure of another category than network and
\* media (and without a blocking response code) is format.
C24_NetworkWithoutCode ==
  Done("handleHlsError")
    => LET d == lastAct.data IN
       /\ (d.type = "networkError" /\ d.code \in {NoStatus, 0})
            => thrown.type =
                 IF d.details \in {"manifestLoadError", "fragLoadError"}
                   THEN "blocked" ELSE "network"
       /\ (d.type = "otherError"
             /\ d.details \in {"manifestLoadError", "manifestParsingError"}
             /\ d.code \notin {401, 403, 451, 458, 459, 460})
            => thrown.type = "format"

\* C24 witness: a fragment load that failed without response code has been
\* reported as blocked.
C24_Witness ==
  /\ Done("handleHlsError")
  /\ lastAct.data.type = "networkError" /\ lastAct.data.code = NoStatus
  /\ lastAct.data.details = "fragLoadError"
  /\ thrown.type = "blocked"
  /\ emitted = <<AsEvent(thrown)>>

\* The signal carries a response code.
C25_HasCode(d) == d.code # NoStatus /\ d.code # 0

\* C25 as claimed: whatever the category of a signal with a response code, a
\* code of the blocking set gives blocked, any other code in 400..499 gives
\* blocked, and a code from 500 gives network with the server-error message.
C25_CodeRulesAnyCategory ==
  (Done("handleHlsError") /\ C25_HasCode(lastAct.data))
    => LET code == lastAct.data.code IN
       /\ code \in {401, 403, 451, 458, 459, 460} => thrown.type = "blocked"
       /\ (code >= 400 /\ code <= 499) => thrown.type = "blocked"
       /\ code >= 500
            => thrown.type = "network" /\ thrown.message = "Server error"

\* C25 as amended: a code of the blocking set gives blocked whatever the
\* category; for the network category any other code in 400..499 gives
\* blocked and a code from 500 gives network with the server-error message;
\* for the other categories such a code does not change the kind (media,
\* format or unknown).
C25_CodeRules ==
  (Done("handleHlsError") /\ C25_HasCode(lastAct.data))
    => LET d == lastAct.data IN
       /\ d.code \in {401, 403, 451, 458, 459, 460} => thrown.type = "blocked"
       /\ (d.type = "networkError" /\ d.code >= 400 /\ d.code <= 499)
            => thrown.type = "blocked"
       /\ (d.type = "networkError" /\ d.code >= 500)
            => thrown.type = "network" /\ thrown.message = "Server error"
       /\ (d.type # "networkError" /\ d.code \notin {401, 403, 451, 458, 459, 460})
            => thrown.type \in {"media", "format", "unknown"}

\* C25 witness: a media error that carries 403 has been reported as blocked.
C25_Witness ==
  /\ Done("handleHlsError")
  /\ lastAct.data.type = "mediaError" /\ lastAct.data.code = 403
  /\ thrown.type = "blocked"

\* ----------------------------------------------------------------- C26
C26_Backend(c) ==
  IF ~TargetUrl[c.url].m3u8 THEN "native"
  ELSE IF c.nativeHLS THEN "native"
  ELSE IF c.mse THEN "hls"
  ELSE "unsupported"

\* C26: backend selection is a function of the target and the host: an
\* adaptive-streaming manifest on a host that plays it natively goes to the
\* native path, else on a host with Media Source Extensions to the library
\* path, a target that is no manifest to the native path; a manifest on a
\* host with neither makes play() reject without attaching a backend
\* instance and without assigning a source to the surface.
C26_BackendSelection ==
  (lastAct.name = "play" /\ lastAct.done) =>
    LET b == C26_Backend(lastAct) IN
    /\ b = "native" =>
         /\ pc[1] = "nativeWait" /\ video.src = "native"
         /\ thrown = NoErr /\ hlsInstance = 0
    /\ b = "hls" =>
         /\ pc[1] = "loadlib" /\ video.src = "none" /\ thrown = NoErr
    /\ b = "unsupported" =>
         /\ pc[1] = "rejected" /\ thrown # NoErr
         /\ thrown.message = "HLS playback not supported on this browser"
         /\ hlsInstance = 0
         /\ \A a \in Attempts : inst[a] = "none"
         /\ video.src = "none"
         /\ calls = <<>>

C26_Witness ==
  /\ lastAct.name = "play" /\ lastAct.done
  /\ TargetUrl[lastAct.url].m3u8 /\ ~lastAct.nativeHLS /\ ~lastAct.mse
  /\ pc[1] = "rejected"

\* ----------------------------------------------------------------- C27
\* The steps play() attempt a takes itself.
C27_OwnStep(a) ==
  /\ lastAct'.att = a
  /\ lastAct'.name \in {"Play", "ProbeResponse", "ProbeBody", "ProbeFail",
                        "PreflightTimeout", "LoadLib", "HlsManifestParsed"}

\* C27: a play() of a manifest target that is probed and ends on the library
\* path passes its phases in order.  It leaves Idle by emitting the loading
\* state change and starting the probe, with no instance; it leaves the
\* probe for backend loading only with an ok verdict stored in the same
\* step; its instance is created only in backend loading; it resolves only
\* from the readiness wait, on the instance's ready signal, emitting
\* loading:false in that step and in none of its earlier steps.
C27_PhaseOrder ==
  [][\A a \in Attempts :
       /\ (pc[a] = "free" /\ pc'[a] = "fetch") =>
            /\ lastAct'.name = "Play" /\ lastAct'.att = a
            /\ Has(emitted', StateEv("loading_true"))
            /\ inst'[a] = "none"
       /\ (pc[a] = "fetch" /\ target[a] = "live") =>
            pc'[a] \in {"fetch", "body", "rejected"}
       /\ pc[a] = "body" =>
            /\ pc'[a] \in {"body", "loadlib", "nativeWait", "rejected"}
            /\ pc'[a] = "loadlib" =>
                 /\ lastPreflightResult'.ok
                 /\ lastAct'.name = "ProbeBody" /\ lastAct'.att = a
                 /\ inst'[a] = "none"
       /\ pc[a] = "loadlib" =>
            /\ pc'[a] \in {"loadlib", "hlsWait", "rejected"}
            /\ pc'[a] = "hlsWait" <=> inst'[a] = "alive"
       /\ (inst[a] # "alive" /\ inst'[a] = "alive") =>
            /\ pc[a] = "loadlib"
            /\ lastAct'.name = "LoadLib" /\ lastAct'.att = a
       /\ pc[a] = "hlsWait" =>
            /\ pc'[a] \in {"hlsWait", "resolved", "rejected"}
            /\ pc'[a] = "resolved" =>
                 /\ lastAct'.name = "HlsManifestParsed" /\ lastAct'.att = a
                 /\ inst[a] = "alive"
                 /\ Has(emitted', StateEv("loading_false"))
       /\ (pc'[a] = "resolved" /\ pc[a] # "resolved") =>
            pc[a] \in {"hlsWait", "nativeWait"}
       /\ (C27_OwnStep(a) /\ pc'[a] \in {"fetch", "body", "loadlib", "hlsWait"}) =>
            ~Has(emitted', StateEv("loading_false"))
    ]_vars

C27_Witness ==
  /\ lastAct.name = "HlsManifestParsed"
  /\ pc[lastAct.att] = "resolved"
  /\ inst[lastAct.att] = "alive"
  /\ currentChannel = "live"
  /\ lastPreflightResult.ok
  /\ Has(emitted, StateEv("loading_false"))

\* ----------------------------------------------------------------- C28
C28_ProbeSteps == {"ProbeResponse", "ProbeBody", "ProbeFail", "PreflightTimeout"}

\* C28: the retained verdict belongs to the current attempt: the probe of an
\* attempt that stop() or a later play() has abandoned does not write the
\* last verdict, so the verdict a native decode error is classified with is
\* never that of an earlier attempt.
C28_VerdictOfCurrentAttempt ==
  [][\A a \in Attempts :
       (InProbe(a) /\ abandoned[a] /\ ~InProbe(a)'
          /\ lastAct'.att = a /\ lastAct'.name \in C28_ProbeSteps)
         => lastPreflightResult' = lastPreflightResult]_vars

\* The probe of attempt 1 has failed and stored its verdict while attempt 2,
\* whose target is on the native path, waits for the surface: a decode error
\* now is classified with attempt 1's verdict.
C28_StaleVerdictRetained ==
  /\ lastAct.att = 1 /\ lastAct.name \in C28_ProbeSteps
  /\ pc[1] = "rejected"
  /\ pc[2] = "nativeWait" /\ listening[2]
  /\ lastPreflightResult # NullVerdict
  /\ ~lastPreflightResult.ok

\* ----------------------------------------------------------------- C29
\* C29: seek(t) on a session without a library instance assigns the
\* surface's position and changes nothing else; on a library session it sets
\* the instance's start position and the surface's position to t.  When the
\* grace timer of a seek(t) fires on a library session, the load is stopped
\* and started again at t exactly when the surface's position is further
\* than 2 seconds from t, so a seek ends within tolerance or with a restart
\* at t.
C29_Seek ==
  [][/\ (lastAct'.name = "Seek" /\ videoElement /\ hlsInstance = 0) =>
          /\ video' = [video EXCEPT !.currentTime = lastAct'.time]
          /\ UNCHANGED <<videoElement, Hls, hlsInstance, currentChannel,
                         isPlaying, lastPreflightResult, pc, target, pfTimer,
                         pfStatus, readyTimer, listening, inst, abandoned,
                         doc, hlsLoad, seekTimers>>
          /\ emitted' = <<>>
     /\ (lastAct'.name = "Seek" /\ videoElement /\ hlsInstance # 0) =>
          /\ hlsLoad'[hlsInstance].startPosition = lastAct'.time
          /\ video'.currentTime = lastAct'.time
          /\ Len(seekTimers') = Len(seekTimers) + 1
     /\ (lastAct'.name = "SeekCheck" /\ hlsInstance # 0) =>
          LET t == lastAct'.time
              far == video.currentTime - t > 2 \/ t - video.currentTime > 2
          IN /\ far <=> calls' = <<"hls.stopLoad", "hls.startLoad">>
             /\ far => hlsLoad'[hlsInstance].loadFrom = t
             /\ ~far => hlsLoad' = hlsLoad
             /\ video' = video
    ]_vars

\* The grace check of seek(120) on a library session found the surface at
\* 117 and restarted the load at 120.
C29_Witness ==
  /\ lastAct.name = "SeekCheck" /\ lastAct.time = 120
  /\ hlsInstance = 1
  /\ video.currentTime = 117
  /\ hlsLoad[1].startPosition = 120
  /\ hlsLoad[1].loadFrom = 120
  /\ calls = <<"hls.stopLoad", "hls.startLoad">>

\* ----------------------------------------------------------------- C30
C30_Clamped(v) == IF v < 0 THEN 0 ELSE IF v > 100 THEN 100 ELSE v

\* C30: togglePlay, setVolume, toggleMute and the fullscreen and
\* picture-in-picture operations leave the current target, the attached
\* instance, the last verdict and the pending play() attempts as they are,
\* and setVolume(v) leaves the surface's volume at v clamped to [0, 1].
C30_ControlsFrame ==
  [][/\ UNCHANGED <<currentChannel, hlsInstance, inst, lastPreflightResult,
                    pc, target, listening, readyTimer>>
     /\ video'.src = video.src
     /\ (lastAct'.name = "SetVolume" /\ videoElement) =>
          video'.volume = C30_Clamped(lastAct'.volume)
    ]_vars

\* setVolume(1.5) on a session whose play() is pending.
C30_Witness ==
  /\ lastAct.name = "SetVolume" /\ lastAct.volume = 150
  /\ video.volume = 100
  /\ pc[1] = "nativeWait"

\* ----------------------------------------------------------------- C31
\* C31: emit(event, data) invokes every callback registered on the channel
\* when it is called exactly once and in registration order, whatever the
\* callbacks do while they are dispatched, and does not throw.
C31_EmitReachesAll ==
  [][(lastAct'.name = "emit" /\ lastAct'.event \in EventChannels) =>
       /\ calls' = listeners[lastAct'.event]
       /\ thrown' = NoErr]_vars

\* An emit on a channel with f and g registered invoked f only: f removed
\* itself, g moved to the index already visited and is still registered.
C31_ListenerSkipped ==
  /\ lastAct.name = "emit" /\ lastAct.event = "onError"
  /\ calls = <<"f">>
  /\ listeners["onError"] = <<"g">>

\* ----------------------------------------------------------------- C32
\* C32: the function on(event, callback) returns removes the subscription it
\* was returned for and nothing else: called right after its on() it
\* restores the channel's list, called again it changes nothing, and an
\* off() for a callback that is not registered changes nothing.
C32_Unsubscribe ==
  [][/\ (lastAct'.name = "off" /\ lastAct'.returned /\ ~lastAct'.again) =>
          /\ lastAct'.event \in EventChannels =>
               listeners'[lastAct'.event] = lastAct.before
          /\ \A e \in EventChannels \ {lastAct'.event} :
               listeners'[e] = listeners[e]
     /\ (lastAct'.name = "off" /\ lastAct'.again) => listeners' = listeners
     /\ (lastAct'.name = "off" /\ lastAct'.cb \notin Registered(lastAct'.event)) =>
          listeners' = listeners
    ]_vars

\* f was registered, registered once more, and the function the second on()
\* returned was called twice: the second call removed the first registration.
C32_SecondCallRemovesOther ==
  /\ lastAct.name = "off" /\ lastAct.again
  /\ lastAct.event = "onError" /\ lastAct.cb = "f"
  /\ lastAct.before = <<"f">>
  /\ listeners["onError"] = <<>>

\* ----------------------------------------------------------------- C33
\* C33: for a manifest-style address whose body is not an empty manifest,
\* the verdict has the reachability and the kind the on-demand rules give
\* for the same status.
C33_SameStatusRules ==
  (Probed /\ ~ProbeIsVOD(lastAct.url)
     /\ VerdictKind(lastPreflightResult) # "empty_stream")
    => LET vod == VodVerdict(lastAct.status)
       IN /\ lastPreflightResult.ok = vod.ok
          /\ VerdictKind(lastPreflightResult) = VerdictKind(vod)

\* A manifest-style address answered 204 is reachable; an on-demand address
\* answered 204 is not.
C33_NoContentReachable ==
  /\ Probed /\ ~ProbeIsVOD(lastAct.url)
  /\ lastAct.status = 204
  /\ lastPreflightResult.ok
  /\ ~VodVerdict(204).ok

\* ----------------------------------------------------------------- C34
\* C34: the grace check of a seek() acts only on the session the seek was
\* issued for: its callback does not throw, and a load it restarts is that
\* of the instance that was attached when seek() was called.
C34_CheckOwnSession ==
  [][lastAct'.name = "SeekCheck" =>
       /\ thrown' = NoErr
       /\ hlsLoad' # hlsLoad => hlsInstance = lastAct'.att]_vars

\* stop() ran between seek(120) and its grace check: the surface is back at
\* position 0, no instance is attached, and the callback threw.
C34_CheckAfterStopThrows ==
  /\ lastAct.name = "SeekCheck" /\ lastAct.att = 1 /\ lastAct.time = 120
  /\ hlsInstance = 0 /\ inst[1] = "destroyed"
  /\ thrown # NoErr

\* ----------------------------------------------------------------- C35
C35_Reports == SelectSeq(emitted, LAMBDA e : e.ch = "onError")

\* C35: one error signal of the surface produces one event on the error
\* channel, also while play() waits for native readiness.
C35_OneReportPerSignal ==
  lastAct.name = "VideoError" => Len(C35_Reports) = 1

\* The surface raised one error while attempt 1 waited for readiness: the
\* attempt is rejected and two reports were emitted.
C35_ReportedTwice ==
  /\ lastAct.name = "VideoError"
  /\ pc[1] = "rejected" /\ thrown.message = "Playback failed"
  /\ Len(C35_Reports) = 2
  /\ C35_Reports[1] = C35_Reports[2]

\* ----------------------------------------------------------------- C36
\* C36: a play() attempt that emitted loading:true emits loading:false in
\* the step that settles it, whichever way it settles.
C36_LoadingCleared ==
  [][\A a \in Attempts :
       (pc[a] \in Pending /\ pc'[a] \in Settled)
         => Has(emitted', StateEv("loading_false"))]_vars

\* play() was rejected for want of a backend and loading:false was not
\* emitted.
C36_LoadingLeftSet ==
  /\ lastAct.name = "ProbeBody"
  /\ pc[lastAct.att] = "rejected"
  /\ lastPreflightResult.ok
  /\ thrown.message = "HLS playback not supported on this browser"
  /\ ~Has(emitted, StateEv("loading_false"))

\* ----------------------------------------------------------------- C37
\* The attempts a step settles, and those it resolves.
C37_Settling == {a \in Attempts : pc[a] \in Pending /\ pc'[a] \in Settled}
C37_Resolving == {a \in Attempts : pc[a] \in Pending /\ pc'[a] = "resolved"}

\* C37: the outcome of a play() attempt is decided once: a settled attempt
\* stays as it is, and every loading:false state change and every start of
\* playback belongs to an attempt being settled in that step, so a signal
\* that arrives for a settled attempt causes neither.
C37_DecidedOnce ==
  [][/\ \A a \in Attempts : pc[a] \in Settled => pc'[a] = pc[a]
     /\ Count(emitted', StateEv("loading_false")) <= Cardinality(C37_Settling)
     /\ Count(calls', "play") <= Cardinality(C37_Resolving)
     /\ \A a \in Attempts :
          (pc[a] \in Settled /\ lastAct'.att = a
             /\ lastAct'.name \in {"HlsManifestParsed", "HlsError", "NativeTimeout"})
            => /\ ~Has(emitted', StateEv("loading_false"))
               /\ ~Has(calls', "play")
               /\ UNCHANGED <<video, isPlaying, target>>
    ]_vars

\* A second ready signal of the library instance of a resolved attempt has
\* been handled and did nothing.
C37_Witness ==
  /\ lastAct.name = "HlsManifestParsed"
  /\ pc[lastAct.att] = "resolved"
  /\ inst[lastAct.att] = "alive"
  /\ emitted = <<>> /\ calls = <<>>

\* ----------------------------------------------------------------- C38
\* C38: the content kind inferred from an address is the same wherever
\* play() infers it: an address the probe takes for on-demand is not handed
\* to the library backend, on a host that has only the library an address
\* goes to it exactly when the probe takes it for a manifest, and the
\* readiness timer on the native path is the on-demand one exactly for the
\* addresses the probe takes for on-demand.
C38_KindsAgree ==
  (lastAct.name = "play" /\ lastAct.done) =>
    /\ lastAct.probedAsVOD => pc[1] # "loadlib"
    /\ (~lastAct.nativeHLS /\ lastAct.mse) =>
         (pc[1] = "loadlib" <=> ~lastAct.probedAsVOD)
    /\ pc[1] = "nativeWait" => (lastAct.ms = 30000 <=> lastAct.probedAsVOD)

\* An address with both marks was probed by status alone, as on-demand, and
\* handed to the library backend.
C38_VodToLibrary ==
  /\ lastAct.name = "play" /\ lastAct.done
  /\ lastAct.url = "hybrid"
  /\ lastAct.probedAsVOD
  /\ pc[1] = "loadlib"

\* ----------------------------------------------------------------- C39
\* C39: on an initialised player, getVolume() right after setVolume(v)
\* returns v for every v in [0, 1], 0 included, and the clamped v for the
\* others.
C39_VolumeRoundTrip ==
  [][(lastAct.name = "SetVolume" /\ lastAct'.name = "GetVolume" /\ videoElement)
       => lastAct'.ret = C30_Clamped(lastAct.volume)]_vars

\* getVolume() after setVolume(0) returned 1.
C39_ZeroReadsAsFull ==
  /\ lastAct.name = "GetVolume"
  /\ videoElement
  /\ video.volume = 0
  /\ lastAct.ret = 100
====
